---- MODULE Spec2Model ----
(***************************************************************************)
(* A model of the vdlisp evaluator (State::eval / State::call), its        *)
(* environments, and the tiered compiler (JITCompiler::compileFuncData,    *)
(* JITIREmitter) together with the native code the emitter produces.       *)
(*                                                                         *)
(* Lisp values are records tagged by `t`; pairs are structural.  Function  *)
(* records and environments live in heaps (funcs, envs) and carry the     *)
(* reference counts the code keeps.  The script driver evaluates one       *)
(* top-level form per step.                                                *)
(***************************************************************************)
EXTENDS Integers, Sequences, FiniteSets, TLC

\* Do("eval", <<S, expr, env, cx>>) is eval(S, expr, env, cx), and so on for
\* the operations that call one another across the evaluator, the
\* reference counts, the emitter and the native code; it is defined below,
\* once they all are.
RECURSIVE Do(_, _)

\* ------------------------------------------------------------------ bounds
MaxCalls == 6
MaxFuel == 40
\* The function records a session allocates before it stops rebinding names.
MaxFuncs == 4
\* The stack an activation of compileFuncData takes, in activations of eval.
CompileStep == 10

\* --------------------------------------------------------------- constants
\* State::call compiles when num_call_count > 3.
JitThreshold == 3

\* ------------------------------------------------------------------ values
Nil == [t |-> "nil"]
Sym(s) == [t |-> "sym", s |-> s]
Str(s) == [t |-> "str", s |-> s]
Pair(a, b) == [t |-> "pair", car |-> a, cdr |-> b]
Func(id) == [t |-> "func", id |-> id]
Macro(id) == [t |-> "macro", id |-> id]
PrimV(name) == [t |-> "prim", name |-> name]
CFuncV(name) == [t |-> "cfunc", name |-> name]

\* A binary64 is modelled as a normalised fraction <<n, d>>, d >= 0:
\* d > 0 a finite number, <<1,0>> +inf, <<-1,0>> -inf, <<0,0>> NaN.
\* Rounding and the sign of zero are not modelled.
DNaN == <<0, 0>>
DInt(k) == <<k, 1>>
NumD(x) == [t |-> "num", v |-> x]
Num(k) == NumD(DInt(k))

Abs(k) == IF k < 0 THEN -k ELSE k
Sgn(k) == IF k < 0 THEN -1 ELSE IF k > 0 THEN 1 ELSE 0

RECURSIVE Gcd(_, _)
Gcd(a, b) == IF b = 0 THEN a ELSE Gcd(b, a % b)

DNorm(n, d) ==
    IF d = 0 THEN <<Sgn(n), 0>>
    ELSE LET g == Gcd(Abs(n), Abs(d))
             s == IF d < 0 THEN -1 ELSE 1
         IN <<(s * n) \div g, (s * d) \div g>>

DIsNaN(x) == x = DNaN
DIsInf(x) == x[2] = 0 /\ x[1] # 0

DNeg(x) == <<-x[1], x[2]>>

FAdd(a, b) ==
    IF DIsNaN(a) \/ DIsNaN(b) THEN DNaN
    ELSE IF DIsInf(a) /\ DIsInf(b) THEN (IF a = b THEN a ELSE DNaN)
    ELSE IF DIsInf(a) THEN a
    ELSE IF DIsInf(b) THEN b
    ELSE DNorm(a[1] * b[2] + b[1] * a[2], a[2] * b[2])

FSub(a, b) == FAdd(a, DNeg(b))

FMul(a, b) ==
    IF DIsNaN(a) \/ DIsNaN(b) THEN DNaN
    ELSE IF DIsInf(a) \/ DIsInf(b)
         THEN (IF a[1] = 0 \/ b[1] = 0 THEN DNaN ELSE <<Sgn(a[1]) * Sgn(b[1]), 0>>)
    ELSE DNorm(a[1] * b[1], a[2] * b[2])

FDiv(a, b) ==
    IF DIsNaN(a) \/ DIsNaN(b) THEN DNaN
    ELSE IF DIsInf(a) THEN (IF DIsInf(b) THEN DNaN
                            ELSE <<a[1] * (IF b[1] < 0 THEN -1 ELSE 1), 0>>)
    ELSE IF DIsInf(b) THEN DInt(0)
    ELSE IF b[1] = 0 THEN <<Sgn(a[1]), 0>>
    ELSE DNorm(a[1] * b[2], a[2] * b[1])

\* Ordered comparisons: false when either operand is NaN.
DLt(a, b) ==
    /\ ~DIsNaN(a) /\ ~DIsNaN(b)
    /\ IF DIsInf(a) /\ DIsInf(b) THEN a[1] < b[1]
       ELSE a[1] * b[2] < b[1] * a[2]
DEq(a, b) == ~DIsNaN(a) /\ ~DIsNaN(b) /\ a = b
DLe(a, b) == DLt(a, b) \/ DEq(a, b)

\* Value::set_number: a pattern whose exponent bits are all ones becomes 0.
set_number(x) == IF x[2] = 0 THEN DInt(0) ELSE x
make_number(x) == NumD(set_number(x))


\* ------------------------------------------------------- interpreter state
\* The evaluator's world as one record S, threaded through every operator:
\*   envs   Env heap: id -> [parent, map, refs]; an id absent from the domain
\*          is a destroyed (or never allocated) Env.  NoEnv is the null pointer.
\*   funcs  FuncData heap, indexed by allocation order:
\*          [params, body, env, ncalls, code, failed, refs, alive]
\*   mods   JITCompiler::module_for_fn: the native code installed per function
\*   out    lines printed on stdout
\*   val    the Value an operator returns (an owned reference)
\*   err    the pending exception (NoErr when none)
\*   fault  "" or the undefined / fatal behaviour the run has met
\*   run    control is still in straight-line code: err = NoErr and
\*          fault = "" (Throw and Fault clear it, a catch sets it again)
\*   active vdlisp::jit_active_state is non-null
\*   log    events of the current top-level form: <<"synth", f, ok>>,
\*          <<"native", f, depth>>, <<"result", f, depth>> (the native number
\*          was returned), <<"deopt", f, depth>>, <<"bridge", f, depth>>,
\*          <<"refused", f, depth>> (the bridge found jit_active_state null)
\*   hist   what the calls of require did since the start, by the canonical
\*          path of the file: <<"open", path>> the file was opened and
\*          read, <<"done", path, v>> its load completed with value v,
\*          <<"hit", path, v>> v was answered from loaded_modules
\*   d, ds, loc, ptr  scratch results of native code and of the compiler
NoEnv == 0
GlobalEnv == 1
NoErr == <<>>
EmptyMap == <<>>

Names(map) == DOMAIN map

RECURSIVE SetToSeq(_)
SetToSeq(set) ==
    IF set = {} THEN <<>>
    ELSE LET x == CHOOSE y \in set : TRUE IN <<x>> \o SetToSeq(set \ {x})

Ret(S, v) == [S EXCEPT !.val = v]
Throw(S, e) == [S EXCEPT !.err = e, !.val = Nil, !.run = FALSE]
Fault(S, what) ==
    [S EXCEPT !.fault = IF S.fault = "" THEN what ELSE S.fault, !.val = Nil, !.run = FALSE]
Note(S, ev) == [S EXCEPT !.log = Append(S.log, ev)]
\* Call depth of an evaluation context: 0 for the call typed at the prompt.
Depth(cx) == MaxFuel - cx.fuel

\* --------------------------------------------------------- reference counts
\* retain_env (nanbox.hpp): inc_ref on a live Env.
retain_env(S, e) ==
    IF e = NoEnv \/ S.fault # "" THEN S
    ELSE IF e \notin DOMAIN S.envs THEN Fault(S, "use-after-free env")
    ELSE [S EXCEPT !.envs[e].refs = @ + 1]

\* Value::retain: only function and macro records are counted by the model;
\* strings, symbols and pairs are structural values.
retain(S, v) ==
    IF v.t \notin {"func", "macro"} \/ S.fault # "" THEN S
    ELSE IF ~S.funcs[v.id].alive THEN Fault(S, "use-after-free func")
    ELSE [S EXCEPT !.funcs[v.id].refs = @ + 1]

RECURSIVE release_env(_, _)
RECURSIVE release(_, _)
RECURSIVE release_all(_, _)

\* release_env + Env::~Env: at zero the parent is released, then the map's
\* Values are destroyed.
release_env(S, e) ==
    IF e = NoEnv \/ S.fault # "" THEN S
    ELSE IF e \notin DOMAIN S.envs THEN Fault(S, "use-after-free env")
    ELSE IF S.envs[e].refs > 1 THEN [S EXCEPT !.envs[e].refs = @ - 1]
    ELSE LET r == S.envs[e]
             S1 == [S EXCEPT !.envs = [i \in DOMAIN S.envs \ {e} |-> S.envs[i]]]
             S2 == release_env(S1, r.parent)
         IN release_all(S2, [i \in 1..Len(SetToSeq(Names(r.map))) |->
                                 r.map[SetToSeq(Names(r.map))[i]]])

\* Value::release / release_payload: at zero a FuncData gives back its native
\* code (releaseFunctionCode), releases closure_env and is deleted; a
\* MacroData is deleted with the reference it holds on closure_env.
release(S, v) ==
    IF v.t \notin {"func", "macro"} \/ S.fault # "" THEN S
    ELSE IF ~S.funcs[v.id].alive THEN Fault(S, "use-after-free func")
    ELSE IF S.funcs[v.id].refs > 1 THEN [S EXCEPT !.funcs[v.id].refs = @ - 1]
    ELSE LET fd == S.funcs[v.id]
             S1 == [S EXCEPT !.funcs[v.id].refs = 0,
                             !.funcs[v.id].alive = FALSE,
                             !.funcs[v.id].code = FALSE,
                             !.funcs[v.id].env = NoEnv,
                             !.mods = [i \in DOMAIN S.mods \ {v.id} |-> S.mods[i]]]
         IN IF v.t = "macro" THEN S1 ELSE release_env(S1, fd.env)

release_all(S, vals) ==
    IF vals = <<>> THEN S
    ELSE release_all(Do("release", <<S, Head(vals)>>), Tail(vals))

\* A list that shares the elements of another keeps them alive.  Function
\* values stored inside pairs are counted on entry only: the model's scripts
\* keep functions in environment slots and evaluation temporaries.
RECURSIVE retain_list(_, _)
retain_list(S, list) ==
    IF list.t # "pair" THEN S
    ELSE retain_list(retain(S, list.car), list.cdr)

\* The elements of a freshly built argument list are released with the list.
RECURSIVE release_list(_, _)
release_list(S, list) ==
    IF list.t # "pair" THEN S
    ELSE release_list(Do("release", <<S, list.car>>), list.cdr)

\* ------------------------------------------------------------ environments
NewEnvId(S) == CHOOSE i \in 1..(Cardinality(DOMAIN S.envs) + 1) : i \notin DOMAIN S.envs

\* State::make_env: a fresh Env holding one reference on its parent; the
\* caller owns the returned reference (refs = 1).
make_env(S, parent) ==
    LET S1 == retain_env(S, parent)
    IN [S1 EXCEPT !.envs = (NewEnvId(S) :> [parent |-> parent, map |-> EmptyMap, refs |-> 1]) @@ S1.envs]

\* Lookup along the parent chain: the Env that binds `name`, or NoEnv.
RECURSIVE FindEnv(_, _, _)
FindEnv(envs, e, name) ==
    IF e = NoEnv \/ e \notin DOMAIN envs THEN NoEnv
    ELSE IF name \in DOMAIN envs[e].map THEN e
    ELSE FindEnv(envs, envs[e].parent, name)

\* map[key] = std::move(v): the slot adopts v and releases what it held.
StoreSlot(S, e, name, v) ==
    LET old == IF name \in DOMAIN S.envs[e].map THEN S.envs[e].map[name] ELSE Nil
        S1 == [S EXCEPT !.envs[e].map = (name :> v) @@ @]
    IN Do("release", <<S1, old>>)

\* State::bind: binds in `env` itself; the returned Value is the moved-from
\* parameter, i.e. nil.
bind(S, sym, v, env) ==
    LET e == IF env = NoEnv THEN GlobalEnv ELSE env
    IN IF sym.t # "sym" THEN Throw(Do("release", <<S, v>>), <<"bind expects a symbol">>)
       ELSE Ret(StoreSlot(S, e, sym.s, v), Nil)

\* State::set: overwrites the nearest binding on the chain, else binds in
\* `env`; returns the moved-from parameter, i.e. nil.
\* State::set without the walk up the parent chain.
set_mut(S, sym, v, env) == bind(S, sym, v, env)

set(S, sym, v, env) ==
    LET e == IF env = NoEnv THEN GlobalEnv ELSE env
        at == FindEnv(S.envs, e, sym.s)
    IN IF sym.t # "sym" THEN Fault(S, "get_symbol of a non-symbol")
       ELSE IF at # NoEnv THEN Ret(StoreSlot(S, at, sym.s, v), Nil)
       ELSE Ret(bind(S, sym, v, e), Nil)

\* clear_closure_env: the reference a function or macro record holds on its
\* closure environment is given back and the pointer nulled.
clear_closure_env(S, v) ==
    IF v.t \notin {"func", "macro"} \/ S.fault # "" THEN S
    ELSE IF ~S.funcs[v.id].alive THEN Fault(S, "use-after-free func")
    ELSE IF S.funcs[v.id].env = NoEnv THEN S
    ELSE [release_env(S, S.funcs[v.id].env) EXCEPT !.funcs[v.id].env = NoEnv]

\* The loop over the map of one environment (lines 125-130): each value has
\* its closure environment cleared and is then reset.
ClearSlot(S2, e, name) ==
    IF S2.fault # "" \/ e \notin DOMAIN S2.envs THEN S2
    ELSE [S2 EXCEPT !.envs[e].map = (name :> Nil) @@ @]

RECURSIVE ClearMap(_, _, _)
ClearMap(S, e, names) ==
    IF names = <<>> \/ S.fault # "" THEN S
    ELSE IF e \notin DOMAIN S.envs THEN Fault(S, "use-after-free env")
    ELSE ClearMap(ClearSlot(Do("release", <<clear_closure_env(S, S.envs[e].map[Head(names)]),
                                            S.envs[e].map[Head(names)]>>),
                            e, Head(names)),
                  e, Tail(names))

\* Lines 131-138 for one environment: the map is cleared and the parent,
\* retained when it was queued, is let go and nulled.
ClearAll(S1, e) == ClearMap(S1, e, SetToSeq(DOMAIN S1.envs[e].map))
EmptyMapOf(S2, e) ==
    IF S2.fault = "" /\ e \in DOMAIN S2.envs THEN [S2 EXCEPT !.envs[e].map = EmptyMap] ELSE S2
DropParent(S3, e, parent) ==
    IF parent # NoEnv /\ S3.fault = "" /\ e \in DOMAIN S3.envs
    THEN [release_env(S3, parent) EXCEPT !.envs[e].parent = NoEnv]
    ELSE S3

\* The walk of the chain of the global environment (lines 110-141): q is
\* the queue, i the index of the environment being visited.
RECURSIVE WalkChain(_, _, _)
WalkChain(S, q, i) ==
    IF S.fault # "" THEN S
    ELSE IF i > Len(q) THEN S
    ELSE IF q[i] \notin DOMAIN S.envs THEN Fault(S, "use-after-free env")
    ELSE LET e == q[i]
             parent == S.envs[e].parent
         IN WalkChain(DropParent(EmptyMapOf(ClearAll(retain_env(S, parent), e), e), e, parent),
                      IF parent # NoEnv THEN Append(q, parent) ELSE q, i + 1)

RECURSIVE ReleaseEnvs(_, _)
ReleaseEnvs(S, q) == IF q = <<>> THEN S ELSE ReleaseEnvs(release_env(S, Head(q)), Tail(q))

\* The chain of environment e, e first.
RECURSIVE Up(_, _)
Up(S, e) == IF e = NoEnv THEN <<>> ELSE <<e>> \o Up(S, S.envs[e].parent)

\* Lines 145-148: the State's own reference on the global environment.
DropGlobal(S2, g) == IF g # NoEnv THEN [release_env(S2, g) EXCEPT !.global = NoEnv] ELSE S2

\* Lines 150-159: the tables of the State are emptied.
PurgeTables(S3) ==
    [release_all(S3, [k \in 1..Len(SetToSeq(DOMAIN S3.loaded_modules)) |->
                         S3.loaded_modules[SetToSeq(DOMAIN S3.loaded_modules)[k]]])
        EXCEPT !.loaded_modules = EmptyMap, !.src_map = EmptyMap,
               !.src_call_chain_map = EmptyMap, !.current_expr = Nil]

\* State::shutdown_and_purge_pools.  The interned symbols hold no closure
\* and are not counted by the model.
shutdown_and_purge_pools(S) ==
    IF S.global = NoEnv THEN PurgeTables(S)
    ELSE PurgeTables(DropGlobal(ReleaseEnvs(WalkChain(retain_env(S, S.global), <<S.global>>, 1),
                                            Up(S, S.global)),
                                S.global))

\* ------------------------------------------------------------ list helpers
pair_car(p) == IF p.t = "pair" THEN p.car ELSE Nil
pair_cdr(p) == IF p.t = "pair" THEN p.cdr ELSE Nil
is_pair(p) == p.t = "pair"
is_symbol(p, name) == p.t = "sym" /\ p.s = name

RECURSIVE list_of(_)
list_of(seq) == IF seq = <<>> THEN Nil ELSE Pair(Head(seq), list_of(Tail(seq)))

RECURSIVE ListToSeq(_)
ListToSeq(list) == IF list.t # "pair" THEN <<>> ELSE <<list.car>> \o ListToSeq(list.cdr)

\* ------------------------------------------------------------- the reader
\* State::SourceLoc: file is the name the text was read under, "(string)"
\* for a line typed at the prompt.
SourceLoc(file, line, col) == [file |-> file, line |-> line, col |-> col, label |-> ""]
NoLoc == SourceLoc("", 0, 0)

\* The exception in flight is a ParseError carrying loc and call_chain
\* (helpers.hpp), or some other exception.
NoPE == [is |-> FALSE, loc |-> NoLoc, call_chain |-> <<>>]
ParseError(S, loc, msg, call_chain) ==
    [S EXCEPT !.err = msg, !.val = Nil, !.run = FALSE,
              !.pe = [is |-> TRUE, loc |-> loc, call_chain |-> call_chain]]

\* A pair or a string is a heap record of its own: the location recorded for
\* it is carried by the value.  A symbol or a number has no record: its
\* identity_key is its bits, the same for every occurrence.
PairAt(a, b, loc) == [t |-> "pair", car |-> a, cdr |-> b, at |-> loc]
StrAt(s, loc) == [t |-> "str", s |-> s, at |-> loc]
Boxed(v) == v.t \in {"pair", "str"}

\* State::set_source_loc for a value without a heap record.
set_source_loc(S, v, loc) ==
    IF v.t = "nil" THEN S
    ELSE [S EXCEPT !.src_map = (v :> loc) @@ S.src_map]

\* State::get_source_loc: has_source_loc is its result, source_loc its out.
has_source_loc(S, v) ==
    IF v.t = "nil" THEN FALSE
    ELSE IF Boxed(v) THEN "at" \in DOMAIN v
    ELSE v \in DOMAIN S.src_map
source_loc(S, v) == IF Boxed(v) THEN v.at ELSE S.src_map[v]

\* The reader's cursor R: the world, the name of the text, pos (from 0),
\* line and col (from 1).
CharAt(src, pos) == SubSeq(src, pos + 1, pos + 1)
isspace(c) == c \in {" ", "\n", "\t", "\r", "\f"}
\* A string of this language cannot hold the backquote: ^ stands for it in
\* the texts.
Backquote == "^"
is_delim(c) == isspace(c) \/ c \in {"(", ")", "'", "\"", ";", Backquote, ","}

advance_pos(src, R) ==
    IF R.pos >= Len(src) THEN R
    ELSE IF CharAt(src, R.pos) = "\n"
         THEN [R EXCEPT !.pos = @ + 1, !.line = @ + 1, !.col = 1]
    ELSE [R EXCEPT !.pos = @ + 1, !.col = @ + 1]

RECURSIVE SkipLine(_, _)
SkipLine(src, R) ==
    IF R.pos < Len(src) /\ CharAt(src, R.pos) # "\n" THEN SkipLine(src, advance_pos(src, R))
    ELSE R

RECURSIVE skip_ws_and_comments(_, _)
skip_ws_and_comments(src, R) ==
    IF R.pos >= Len(src) THEN R
    ELSE IF isspace(CharAt(src, R.pos)) THEN skip_ws_and_comments(src, advance_pos(src, R))
    ELSE IF CharAt(src, R.pos) = ";" THEN skip_ws_and_comments(src, SkipLine(src, R))
    ELSE R

RECURSIVE ScanToken(_, _)
ScanToken(src, R) ==
    IF R.pos < Len(src) /\ ~is_delim(CharAt(src, R.pos)) THEN ScanToken(src, advance_pos(src, R))
    ELSE R

\* strtod on the numerals the texts use: a token made of decimal digits only
\* is a number, any other token is not.
Digits == <<"0", "1", "2", "3", "4", "5", "6", "7", "8", "9">>
DigitOf(c) == (CHOOSE i \in 1..10 : Digits[i] = c) - 1
IsNumeral(tok) ==
    Len(tok) > 0 /\ \A i \in 1..Len(tok) : \E k \in 1..10 : Digits[k] = SubSeq(tok, i, i)
RECURSIVE strtod(_)
strtod(tok) ==
    IF Len(tok) = 0 THEN 0
    ELSE 10 * strtod(SubSeq(tok, 1, Len(tok) - 1)) + DigitOf(SubSeq(tok, Len(tok), Len(tok)))

\* The characters of a string literal up to its closing quote: s the text
\* read so far.
Escape(c) ==
    CASE c = "n" -> "\n" [] c = "t" -> "\t" [] c = "r" -> "\r" [] OTHER -> c
RECURSIVE ScanString(_, _, _)
ScanString(src, R, s) ==
    IF R.pos < Len(src) /\ CharAt(src, R.pos) # "\""
    THEN (IF CharAt(src, R.pos) = "\\" /\ R.pos + 1 < Len(src)
          THEN ScanString(src, advance_pos(src, advance_pos(src, R)),
                          s \o Escape(CharAt(src, R.pos + 1)))
          ELSE ScanString(src, advance_pos(src, R), s \o CharAt(src, R.pos)))
    ELSE [R EXCEPT !.S = Ret(R.S, Str(s))]

RetAt(R, v) == [R EXCEPT !.S = Ret(R.S, v)]
ThrowAt(R, loc, msg) == [R EXCEPT !.S = ParseError(R.S, loc, msg, <<>>)]

RECURSIVE parse_at(_, _)
RECURSIVE ParseList(_, _, _)

\* The end of a list (lines 327-364), in the order of the code: E is the
\* cursor after an element, Rest after the elements that follow it, T after
\* the tail that follows a dot, R2 and R3 after the blanks skipped next.
ListRest(E, Rest, open) ==
    IF ~Rest.S.run THEN Rest
    ELSE RetAt(Rest, PairAt(E.S.val, Rest.S.val, open))

DottedClose(src, T, R3, open) ==
    IF R3.pos >= Len(src) \/ CharAt(src, R3.pos) # ")"
    THEN ThrowAt(R3, open, <<"expected ) after dotted-tail">>)
    ELSE RetAt(advance_pos(src, R3), T.S.val)

DottedEnd(src, T, open) ==
    IF ~T.S.run THEN T
    ELSE DottedClose(src, T, skip_ws_and_comments(src, T), open)

DottedTail(src, R2, open) ==
    IF R2.pos >= Len(src) THEN ThrowAt(R2, open, <<"unexpected EOF after . in list">>)
    ELSE DottedEnd(src, parse_at(src, R2), open)

ListElem(src, E, open) ==
    IF ~E.S.run THEN E
    ELSE IF E.S.val = Sym(".") THEN DottedTail(src, skip_ws_and_comments(src, E), open)
    ELSE ListRest(E, ParseList(src, E, open), open)

ListAt(src, R1, open) ==
    IF R1.pos >= Len(src) THEN ThrowAt(R1, open, <<"unexpected EOF while reading list">>)
    ELSE IF CharAt(src, R1.pos) = ")" THEN RetAt(advance_pos(src, R1), Nil)
    ELSE ListElem(src, parse_at(src, R1), open)

\* The loop of parse_at that reads the elements of a list (lines 327-364):
\* open is the position of the opening parenthesis, the value returned is
\* the rest of the list from the cursor on.
ParseList(src, R, open) == ListAt(src, skip_ws_and_comments(src, R), open)

\* 'x, `x and ,x (lines 366-391): Q is the cursor after x.
Quoted(Q, word, here) ==
    IF ~Q.S.run THEN Q
    ELSE RetAt(Q, PairAt(Sym(word), Pair(Q.S.val, Nil), here))

\* A string literal (lines 393-420): T is the cursor at its closing quote.
StringEnd(src, T, here) ==
    IF T.pos >= Len(src) THEN ThrowAt(T, here, <<"unexpected EOF while reading string">>)
    ELSE RetAt(advance_pos(src, T), StrAt(T.S.val.s, here))

\* A token (lines 422-457): K is the cursor after it.
Token(src, R0, K, here) ==
    LET tok == SubSeq(src, R0.pos + 1, K.pos)
        v == IF IsNumeral(tok) THEN Num(strtod(tok)) ELSE Sym(tok)
    IN IF ~IsNumeral(tok) /\ tok = "nil" THEN RetAt(K, Nil)
       ELSE [K EXCEPT !.S = Ret(set_source_loc(K.S, v, here), v)]

\* parse_at after the blanks: R0 is the cursor at the first character.
ParseHere(src, R0, c, here) ==
    IF R0.pos >= Len(src) THEN RetAt(R0, Nil)
    ELSE IF c = ")" THEN ThrowAt(R0, here, <<"unexpected )">>)
    ELSE IF c = "(" THEN ParseList(src, advance_pos(src, R0), here)
    ELSE IF c \in {"'", Backquote, ","}
         THEN Quoted(parse_at(src, advance_pos(src, R0)),
                     IF c = "'" THEN "quote" ELSE IF c = Backquote THEN "quasiquote" ELSE "unquote",
                     here)
    ELSE IF c = "\"" THEN StringEnd(src, ScanString(src, advance_pos(src, R0), ""), here)
    ELSE Token(src, R0, ScanToken(src, R0), here)

ParseFrom(src, R0) == ParseHere(src, R0, CharAt(src, R0.pos), SourceLoc(R0.name, R0.line, R0.col))

\* parse_at
parse_at(src, R) ==
    IF ~R.S.run THEN R
    ELSE ParseFrom(src, skip_ws_and_comments(src, R))

Cursor(S, name) == [S |-> S, name |-> name, pos |-> 0, line |-> 1, col |-> 1]

\* State::parse
parse(S, src) == parse_at(src, Cursor(S, "(string)")).S

\* State::parse_all
RECURSIVE ParseAll(_, _)
AllRest(E, Rest) ==
    IF ~Rest.S.run THEN Rest
    ELSE RetAt(Rest, Pair(E.S.val, Rest.S.val))
AllElem(src, E) ==
    IF ~E.S.run THEN E
    ELSE AllRest(E, ParseAll(src, E))
ParseAll(src, R) ==
    IF R.pos >= Len(src) THEN RetAt(R, Nil)
    ELSE AllElem(src, parse_at(src, R))
parse_all(S, src, name) == ParseAll(src, Cursor(S, name)).S

\* Value::type_name
type_name(S, v) ==
    CASE v.t = "nil" -> "nil"
      [] v.t = "pair" -> "pair"
      [] v.t = "num" -> "number"
      [] v.t = "str" -> "string"
      [] v.t = "sym" -> "symbol"
      [] v.t = "func" -> (IF S.funcs[v.id].code THEN "jit_func" ELSE "function")
      [] v.t = "macro" -> "macro"
      [] v.t = "prim" -> "prim"
      [] v.t = "cfunc" -> "cfunction"

\* State::to_string / Value::to_repr.  The printed text is kept as a value:
\* a number stands for its digits, Str(..) for bare text, a pair for the
\* parenthesised list of its elements' texts.
RECURSIVE to_repr(_, _)
to_repr(S, v) ==
    CASE v.t = "nil" -> Str("nil")
      [] v.t = "num" -> v
      [] v.t = "str" -> Str(v.s)
      [] v.t = "sym" -> Str(v.s)
      [] v.t = "pair" -> Pair(to_repr(S, v.car), IF v.cdr.t = "nil" THEN Nil ELSE to_repr(S, v.cdr))
      [] v.t = "func" -> (IF S.funcs[v.id].code THEN Str("<jit_func>") ELSE Str("<function>"))
      [] v.t = "macro" -> Str("<macro>")
      [] v.t = "prim" -> Str("<prim>")
      [] v.t = "cfunc" -> Str("<cfunc>")

\* value_equal (helpers.cpp)
value_equal(a, b) ==
    IF a.t = "num" /\ b.t = "num" THEN DEq(a.v, b.v) ELSE a = b

\* Reading a function record that has been deleted is undefined.
Dangling(S, v) == v.t \in {"func", "macro"} /\ ~S.funcs[v.id].alive

\* --------------------------------------------------------------- builtins
\* get_bound("#t", global)
TrueValue(S) ==
    IF "#t" \in DOMAIN S.envs[GlobalEnv].map THEN S.envs[GlobalEnv].map["#t"] ELSE Nil

ExactlyTwo(args) == args.t = "pair" /\ pair_cdr(args).t # "nil" /\ pair_cdr(pair_cdr(args)).t = "nil"

ArithOp(name, a, b) ==
    CASE name = "+" -> FAdd(a, b)
      [] name = "-" -> FSub(a, b)
      [] name = "*" -> FMul(a, b)
      [] name = "/" -> FDiv(a, b)

CmpOp(name, a, b) ==
    CASE name = "<" -> DLt(a, b)
      [] name = ">" -> DLt(b, a)
      [] name = "<=" -> DLe(a, b)
      [] name = ">=" -> DLe(b, a)
      [] name = "=" -> DEq(a, b)

ArithNames == {"+", "-", "*", "/"}
CmpNames == {"<", ">", "<=", ">="}

\* arith_binary / builtin_div: exactly two numbers, else an exception.
arith_binary(S, name, args) ==
    LET a == pair_car(args)
        b == pair_car(pair_cdr(args))
    IN IF ~ExactlyTwo(args) THEN Throw(S, <<name, " requires exactly two arguments">>)
       ELSE IF a.t # "num" THEN Throw(S, <<name, ": expected number, got ", type_name(S, a)>>)
       ELSE IF b.t # "num" THEN Throw(S, <<name, ": expected number, got ", type_name(S, b)>>)
       ELSE IF name = "/" /\ b.v[1] = 0 THEN Throw(S, <<"division by zero">>)
       ELSE Ret(S, make_number(ArithOp(name, a.v, b.v)))

\* compare_binary: the global binding of #t, or nil.
compare_binary(S, name, args) ==
    LET a == pair_car(args)
        b == pair_car(pair_cdr(args))
    IN IF ~ExactlyTwo(args) THEN Throw(S, <<name, " requires exactly two arguments">>)
       ELSE IF a.t # "num" THEN Throw(S, <<name, ": expected number, got ", type_name(S, a)>>)
       ELSE IF b.t # "num" THEN Throw(S, <<name, ": expected number, got ", type_name(S, b)>>)
       ELSE IF CmpOp(name, a.v, b.v) THEN Ret(retain(S, TrueValue(S)), TrueValue(S))
       ELSE Ret(S, Nil)

RECURSIVE ReprAll(_, _)
ReprAll(S, list) ==
    IF list.t # "pair" THEN <<>> ELSE <<to_repr(S, list.car)>> \o ReprAll(S, list.cdr)

Last(seq) == seq[Len(seq)]

\* builtin print: one output line with the texts of all arguments; returns
\* the last argument.
builtin_print(S, args) ==
    LET els == ListToSeq(args)
        r == IF els = <<>> THEN Nil ELSE Last(els)
        S1 == [S EXCEPT !.out = Append(S.out, ReprAll(S, args))]
    IN IF \E i \in 1..Len(els) : Dangling(S, els[i]) THEN Fault(S, "use-after-free func")
       ELSE Ret(retain(S1, r), r)

\* The builtins a script of the model can reach (register_core).
BuiltinNames ==
    ArithNames \cup CmpNames \cup {"=", "print", "list", "type", "car", "cdr", "cons", "error", "require"}

Builtin(S, name, args) ==
    CASE name \in ArithNames -> arith_binary(S, name, args)
      [] name \in CmpNames -> compare_binary(S, name, args)
      [] name = "=" ->
           (IF ~ExactlyTwo(args) THEN Throw(S, <<"= requires exactly two arguments">>)
            ELSE IF value_equal(pair_car(args), pair_car(pair_cdr(args)))
                 THEN Ret(retain(S, TrueValue(S)), TrueValue(S))
                 ELSE Ret(S, Nil))
      [] name = "print" -> builtin_print(S, args)
      [] name = "list" -> Ret(retain_list(S, args), args)
      [] name = "type" ->
           (IF Dangling(S, pair_car(args)) THEN Fault(S, "use-after-free func")
            ELSE Ret(S, Sym(type_name(S, pair_car(args)))))
      [] name = "car" ->
           (IF pair_car(args).t \notin {"nil", "pair"} THEN Throw(S, <<"car expects a pair">>)
            ELSE Ret(retain(S, pair_car(pair_car(args))), pair_car(pair_car(args))))
      [] name = "cdr" ->
           (IF pair_car(args).t \notin {"nil", "pair"} THEN Throw(S, <<"cdr expects a pair">>)
            ELSE Ret(S, pair_cdr(pair_car(args))))
      [] name = "cons" ->
           Ret(retain(retain(S, pair_car(args)), pair_car(pair_cdr(args))),
               Pair(pair_car(args), pair_car(pair_cdr(args))))
      [] name = "error" ->
           Throw(S, <<IF pair_car(args).t = "nil" THEN Str("error") ELSE to_repr(S, pair_car(args))>>)

\* -------------------------------------------------------------- evaluator
\* Every operator below takes the world S and returns the world after the
\* call, with the result in S.val or the exception in S.err.  cx carries the
\* remaining recursion / iteration budget (fuel) and whether the tiered
\* compiler takes part (jit); cx.jit = FALSE gives pure interpretation.
RECURSIVE eval(_, _, _, _)
RECURSIVE eval_args(_, _, _, _)
RECURSIVE do_list(_, _, _, _)
RECURSIVE call(_, _, _, _)
RECURSIVE CallFunc(_, _, _, _)
RECURSIVE Prim(_, _, _, _, _)
RECURSIVE LetBind(_, _, _, _)
RECURSIVE WhileLoop(_, _, _, _, _, _)
RECURSIVE CondLoop(_, _, _, _)
RECURSIVE qq_expand(_, _, _, _, _)
RECURSIVE MacroCall(_, _, _, _, _)
RECURSIVE LoadModule(_, _, _, _, _)

Burn(cx) == [cx EXCEPT !.fuel = @ - 1]

\* Runs cleanup (destructors) on the world after `Sres` without disturbing
\* the result or the pending exception.
Keeping(Sres, Sclean) ==
    IF Sres.fault # "" THEN [Sres EXCEPT !.val = Nil]
    ELSE [Sclean EXCEPT !.val = IF Sclean.fault = "" THEN Sres.val ELSE Nil]

\* EvalContext::commit and ~EvalContext: current_expr goes back to what it
\* was when the evaluation that now returns began (S); after an exception it
\* is left alone.
Commit(S, S9) == IF S9.run THEN [S9 EXCEPT !.current_expr = S.current_expr] ELSE S9

\* with_call_chain putting the frames of the call after those of the calls
\* inside it.
with_call_chain_mut(have_call_loc, call_loc, call_chain_entry, S9) ==
    IF S9.fault # "" \/ S9.err = NoErr \/ ~have_call_loc THEN S9
    ELSE IF S9.pe.is THEN [S9 EXCEPT !.pe.call_chain = @ \o call_chain_entry]
    ELSE [S9 EXCEPT !.pe = [is |-> TRUE, loc |-> call_loc, call_chain |-> call_chain_entry]]

\* with_call_chain, S9 being the world the callable leaves.
with_call_chain(have_call_loc, call_loc, call_chain_entry, S9) ==
    IF S9.fault # "" \/ S9.err = NoErr \/ ~have_call_loc THEN S9
    ELSE IF S9.pe.is THEN [S9 EXCEPT !.pe.call_chain = call_chain_entry \o @]
    ELSE [S9 EXCEPT !.pe = [is |-> TRUE, loc |-> call_loc, call_chain |-> call_chain_entry]]

\* State::eval
eval(S, expr, env0, cx) ==
    LET env == IF env0 = NoEnv THEN GlobalEnv ELSE env0
        at == FindEnv(S.envs, env, expr.s)
        S0 == [S EXCEPT !.current_expr = expr]
        S1 == Do("eval", <<S0, expr.car, env, cx>>)
        fn == S1.val
        S2 == eval_args(S1, expr.cdr, env, cx)
        S3 == Do("call", <<S2, fn, S2.val, cx>>)
    IN CASE S.run /\ expr.t = "pair" /\ S1.run /\ fn.t = "prim" ->
              Commit(S, Prim(S1, fn.name, expr.cdr, env, cx))
         [] S.run /\ expr.t = "pair" /\ S1.run /\ fn.t \notin {"prim", "nil", "macro"} /\ S2.run ->
              Keeping(S3, Commit(S, Do("release", <<release_list(S3, S2.val), fn>>)))
         [] S.run /\ expr.t = "sym" /\ at # NoEnv ->
              Ret(retain(S, S.envs[at].map[expr.s]), S.envs[at].map[expr.s])
         [] S.run /\ expr.t \notin {"pair", "sym", "nil"} -> Ret(retain(S, expr), expr)
         [] OTHER ->
              (IF ~S.run THEN S
               ELSE IF expr.t = "nil" THEN Ret(S0, Nil)
               ELSE IF expr.t = "sym"
                    THEN (IF has_source_loc(S, expr)
                          THEN ParseError(S0, source_loc(S, expr), <<"unbound symbol: ", expr.s>>, <<>>)
                          ELSE Throw(S0, <<"unbound symbol: ", expr.s>>))
               ELSE IF ~S1.run THEN S1
               ELSE IF fn.t = "nil" THEN Throw(S1, <<"attempt to call nil">>)
               ELSE IF fn.t = "macro" THEN Do("MacroCall", <<S, S1, expr, env, cx>>)
               ELSE Keeping(S2, Do("release", <<S2, fn>>)))

\* eval_args: a fresh list of the evaluated elements.
eval_args(S, list, env, cx) ==
    LET S1 == Do("eval", <<S, list.car, env, cx>>)
        S2 == eval_args(S1, list.cdr, env, cx)
    IN CASE S.run /\ list.t = "pair" /\ S1.run /\ S2.run -> Ret(S2, Pair(S1.val, S2.val))
         [] OTHER ->
              (IF ~S.run THEN S
               ELSE IF list.t # "pair" THEN Ret(S, Nil)
               ELSE IF ~S1.run THEN S1
               ELSE Keeping(S2, Do("release", <<S2, S1.val>>)))

\* State::do_list: the value of the last expression, nil for an empty body.
do_list(S, body, env, cx) ==
    LET S1 == Do("eval", <<S, body.car, env, cx>>)
    IN CASE S.run /\ body.t = "pair" /\ body.cdr.t # "pair" -> S1
         [] S.run /\ body.t = "pair" /\ body.cdr.t = "pair" /\ S1.run ->
              do_list(Do("release", <<S1, S1.val>>), body.cdr, env, cx)
         [] OTHER ->
              (IF ~S.run THEN S
               ELSE IF body.t # "pair" THEN Ret(S, Nil)
               ELSE S1)

\* out[name] = v: the map keeps a copy.
StoreCopy(S, e, name, v) == StoreSlot(retain(S, v), e, name, v)

\* bind_params_to_env
RECURSIVE bind_params_to_env(_, _, _, _, _)
bind_params_to_env(S, e, params, args, fill_missing_with_nil) ==
    IF params.t = "nil" \/ S.fault # "" THEN S
    ELSE IF params.t = "sym" THEN StoreCopy(S, e, params.s, args)
    ELSE IF ~fill_missing_with_nil /\ args.t = "nil" THEN S
    ELSE IF params.t # "pair" THEN Fault(S, "get_pair of a non-pair")
    ELSE LET S1 == IF params.car.t = "sym"
                   THEN StoreCopy(S, e, params.car.s, pair_car(args))
                   ELSE S
         IN bind_params_to_env(S1, e, params.cdr, pair_cdr(args), fill_missing_with_nil)

\* ---------------------------------------------------------------- require
\* The files the sessions can name.  Disk gives the text of each file under
\* its canonical path; Links the symbolic links; the working directory is
\* WorkDir.
WorkDir == "/w/"
Disk ==
    ("/w/a.lisp" :> "(set b (require \"b.lisp\")) 7"
     @@ "/w/b.lisp" :> "(cons 8 (require \"a.lisp\"))"
     @@ "/w/c.lisp" :> "(require \"c.lisp\") 5"
     @@ "/w/e.lisp" :> "(require \"./a.lisp\") (car 1)"
     @@ "/w/d/m.lisp" :> "(cons 3 (require \"n.lisp\"))"
     @@ "/w/d/n.lisp" :> "4"
     @@ "/w/n.lisp" :> "6")
Links == ("/w/l.lisp" :> "/w/a.lisp")

\* std::filesystem::absolute, canonical and exists over these files.
RECURSIVE DropDots(_)
DropDots(p) ==
    IF Len(p) < 3 THEN p
    ELSE IF SubSeq(p, 1, 3) = "/./" THEN DropDots(SubSeq(p, 3, Len(p)))
    ELSE SubSeq(p, 1, 1) \o DropDots(SubSeq(p, 2, Len(p)))
absolute(p) == IF Len(p) > 0 /\ SubSeq(p, 1, 1) = "/" THEN p ELSE WorkDir \o p
canonical(p) ==
    LET q == DropDots(absolute(p))
    IN IF q \in DOMAIN Links THEN Links[q] ELSE q
exists(p) == canonical(p) \in DOMAIN Disk

\* std::string::find_last_of: the place of the last c among the first i
\* characters of p, counted from 1; 0 when there is none.
RECURSIVE find_last_of(_, _, _)
find_last_of(p, c, i) ==
    IF i = 0 THEN 0
    ELSE IF SubSeq(p, i, i) = c THEN i
    ELSE find_last_of(p, c, i - 1)

\* The key without the canonical path.
ModuleKey_mut(cand) == cand

\* The key of a candidate path in loaded_modules (lines 40-47).
ModuleKey(cand) == IF exists(cand) THEN canonical(cand) ELSE cand

\* Lines 60-69, once the text is read: S2 the world parse_all left, S3 the
\* world do_list left.
RunModule(S2, cx) ==
    IF S2.run /\ S2.val.t # "nil"
    THEN Do("do_list", <<S2, S2.val, GlobalEnv, Burn(cx)>>)
    ELSE S2
StoreModule(S3, key, path) ==
    IF ~S3.run THEN S3
    ELSE Ret(Do("release", <<[retain(S3, S3.val) EXCEPT !.loaded_modules[key] = S3.val,
                                                       !.hist = Append(@, <<"done", path, S3.val>>)],
                             S3.loaded_modules[key]>>),
             S3.val)
OpenModule(S, key, path, cx) ==
    StoreModule(RunModule(parse_all([S EXCEPT !.loaded_modules = (key :> Nil) @@ @,
                                              !.hist = Append(@, <<"open", path>>)],
                                    Disk[path], key),
                          cx),
                key, path)

\* The loop over the candidates (lines 38-72).  hist keeps what the calls
\* did: a file opened and read, a load completed with its value, a value
\* answered from loaded_modules.
LoadModule(S, name, cands, tried, cx) ==
    LET cand == Head(cands)
        key == ModuleKey(cand)
        hit == S.loaded_modules[key]
        from == IF exists(key) THEN key ELSE cand
    IN IF cands = <<>> THEN Throw(S, <<"could not open file: ", name, tried>>)
       ELSE IF key \in DOMAIN S.loaded_modules
            THEN Ret(retain([S EXCEPT !.hist = Append(@, <<"hit", canonical(key), hit>>)], hit), hit)
       ELSE IF ~exists(from)
            THEN LoadModule(S, name, Tail(cands), Append(tried, key), cx)
       ELSE IF cx.fuel = 0 THEN Fault(S, "stack overflow")
       ELSE OpenModule(S, key, canonical(from), cx)

\* builtin require
require(S, args, cx) ==
    LET name == pair_car(args).s
        at == S.current_expr
        file == IF has_source_loc(S, at) THEN source_loc(S, at).file ELSE ""
        pos == find_last_of(file, "/", Len(file))
        candidates == IF name # "" /\ SubSeq(name, 1, 1) # "/"
                      THEN (IF pos # 0 THEN <<SubSeq(file, 1, pos) \o name>> ELSE <<>>) \o <<name>>
                      ELSE <<name>>
    IN IF pair_car(args).t # "str" THEN Throw(S, <<"require requires a string">>)
       ELSE LoadModule(S, name, candidates, <<>>, cx)

\* State::call
call(S, fn, args, cx) ==
    CASE S.run /\ fn.t = "func" -> CallFunc(S, fn.id, args, cx)
      [] S.run /\ fn.t = "cfunc" /\ fn.name # "require" -> Builtin(S, fn.name, args)
      [] S.run /\ fn.t = "cfunc" /\ fn.name = "require" -> Do("require", <<S, args, cx>>)
      [] OTHER ->
           (IF ~S.run THEN S
            ELSE IF fn.t = "nil" THEN Throw(S, <<"attempt to call nil">>)
            ELSE Throw(S, <<"not a function">>))

\* State::alloc_func / make_function: a new record holding one reference
\* on its definition environment; the returned Value owns the record.
make_function(S, params, body, env) ==
    LET S1 == retain_env(S, env)
        fd == [params |-> params, body |-> body, env |-> env, ncalls |-> 0,
               code |-> FALSE, failed |-> FALSE, refs |-> 1, alive |-> TRUE]
    IN Ret([S1 EXCEPT !.funcs = Append(@, fd)], Func(Len(S.funcs) + 1))

\* State::alloc_macro / make_macro: a MacroData is kept in the same table as
\* the FuncData records; it is never called numerically nor compiled.
make_macro(S, params, body, env) ==
    LET S1 == make_function(S, params, body, env)
    IN Ret(S1, Macro(S1.val.id))

\* The annotation of an expansion (the lambda propagate): every node of v
\* gets the call site as its location and the call chain in front of the
\* chain it had.  A pair is rebuilt with its new location, so a pair the
\* expansion shares with the macro body keeps, in the body, the location it
\* was read at.
RECURSIVE propagate(_, _, _, _)
propagate(S, v, call_loc, call_chain_entry) ==
    LET new_chain == call_chain_entry \o (IF v \in DOMAIN S.src_call_chain_map
                                          THEN S.src_call_chain_map[v] ELSE <<>>)
        A == propagate(S, v.car, call_loc, call_chain_entry)
        D == propagate(A.S, v.cdr, call_loc, call_chain_entry)
        w == IF v.t = "pair" THEN PairAt(A.v, D.v, call_loc)
             ELSE IF v.t = "str" THEN StrAt(v.s, call_loc)
             ELSE v
        S9 == IF v.t = "pair" THEN D.S ELSE set_source_loc(S, v, call_loc)
    IN IF v.t = "nil" THEN [S |-> S, v |-> v]
       ELSE [S |-> [S9 EXCEPT !.src_call_chain_map = (w :> new_chain) @@ @], v |-> w]

\* The macro branch of State::eval (lines 434-493), in the order of the
\* code.  S is the world the evaluation of expr began in, S1 the world after
\* its head gave the macro fn, e the environment of the expansion, F the
\* frames of the call: have (a call location is known), call_loc, entry.
\* The log notes where the expansion of the call begins and where it ends.
MacroFrames(Sa, expr, md) ==
    LET here == IF has_source_loc(Sa, Sa.current_expr) THEN Sa.current_expr ELSE expr
        have_call_loc == has_source_loc(Sa, here)
        call_loc == [source_loc(Sa, here) EXCEPT
                        !.label = IF expr.car.t = "sym" THEN "macro " \o expr.car.s ELSE "macro"]
        def_loc == IF has_source_loc(Sa, md.body)
                   THEN <<[source_loc(Sa, md.body) EXCEPT !.label = "macro-def"]>>
                   ELSE <<>>
    IN IF have_call_loc
       THEN [have |-> TRUE, call_loc |-> call_loc, entry |-> <<call_loc>> \o def_loc]
       ELSE [have |-> FALSE, call_loc |-> NoLoc, entry |-> <<>>]

\* The end of the branch (line 493): the expansion res, the environment and
\* the macro are let go.
MacroLeave(S9, res, e, fn) == Do("release", <<release_env(Do("release", <<S9, res>>), e), fn>>)

\* Lines 491-492: commit, then the value of the expansion.
MacroResult(S, Sd, res, e, fn) ==
    Keeping(Sd, [MacroLeave(Sd, res, e, fn) EXCEPT !.current_expr = S.current_expr])

\* Lines 470-492: the locations of the call are put on the expansion, which
\* is then evaluated where the call stood.
MacroExpanded(S, Sc, F, expr, md, env, e, fn, cx) ==
    LET P == IF F.have
             THEN propagate(Sc, Sc.val, [F.call_loc EXCEPT !.label = ""], F.entry)
             ELSE [S |-> Sc, v |-> Sc.val]
    IN IF ~Sc.run THEN Keeping(Sc, MacroLeave(Sc, Sc.val, e, fn))
       ELSE MacroResult(S, Do("eval", <<Note(P.S, <<"expanded", expr, md.body>>), P.v, env, cx>>),
                        Sc.val, e, fn)

\* Lines 460-468: the body is run in the environment of the expansion.
MacroBody(S, Sa, F, expr, md, env, e, fn, cx) ==
    LET Sb == IF F.have
              THEN [Sa EXCEPT !.src_call_chain_map = (expr :> F.entry) @@ @]
              ELSE Sa
    IN IF Sa.fault # "" THEN Sa
       ELSE MacroExpanded(S, with_call_chain(F.have, F.call_loc, F.entry,
                                             Do("do_list", <<Note(Sb, <<"expand", expr, md.body>>),
                                                             md.body, e, Burn(cx)>>)),
                          F, expr, md, env, e, fn, cx)

MacroBound(S, Sa, expr, md, env, e, fn, cx) ==
    MacroBody(S, Sa, MacroFrames(Sa, expr, md), expr, md, env, e, fn, cx)

MacroCall(S, S1, expr, env, cx) ==
    LET fn == S1.val
        md == S1.funcs[fn.id]
        e == NewEnvId(S1)
    IN IF cx.fuel = 0 THEN Fault(S1, "stack overflow")
       ELSE MacroBound(S, bind_params_to_env(make_env(S1, md.env), e, md.params, expr.cdr, TRUE),
                       expr, md, env, e, fn, cx)

\* prim let: the bindings are read as the flat list (sym1 e1 sym2 e2 ...).
LetBind(S, vars, e, cx) ==
    LET sym == pair_car(vars)
        S1 == Do("eval", <<S, pair_car(pair_cdr(vars)), e, cx>>)
        S2 == bind(S1, sym, S1.val, e)
    IN CASE S.run /\ vars.t # "nil" /\ S1.run -> LetBind(S2, pair_cdr(pair_cdr(vars)), e, cx)
         [] OTHER -> (IF ~S.run \/ vars.t = "nil" THEN S ELSE S1)

\* prim while: res is the value of the last body run, nil if none ran.
WhileLoop(S, cond, body, env, cx, res) ==
    LET S1 == Do("eval", <<S, cond, env, cx>>)
        S2 == do_list(Do("release", <<S1, S1.val>>), body, env, cx)
    IN CASE cx.fuel # 0 /\ S1.run /\ S1.val.t # "nil" /\ S2.run ->
              WhileLoop(Do("release", <<S2, res>>), cond, body, env, Burn(cx), S2.val)
         [] OTHER ->
              (IF cx.fuel = 0 THEN Fault(S, "no termination")
               ELSE IF ~S1.run THEN Keeping(S1, Do("release", <<S1, res>>))
               ELSE IF S1.val.t = "nil" THEN Ret(S1, res)
               ELSE Keeping(S2, Do("release", <<S2, res>>)))

\* prim cond: the first clause whose test is not nil; 0 is not nil.
CondLoop(S, clauses, env, cx) ==
    LET clause == pair_car(clauses)
        S1 == Do("eval", <<S, pair_car(clause), env, cx>>)
        test == S.run /\ clauses.t # "nil" /\ clause.t # "nil"
    IN CASE test /\ S1.run /\ S1.val.t # "nil" ->
              do_list(Do("release", <<S1, S1.val>>), pair_cdr(clause), env, cx)
         [] test /\ S1.run /\ S1.val.t = "nil" -> CondLoop(S1, pair_cdr(clauses), env, cx)
         [] S.run /\ clauses.t # "nil" /\ clause.t = "nil" ->
              CondLoop(S, pair_cdr(clauses), env, cx)
         [] OTHER ->
              (IF ~S.run THEN S
               ELSE IF clauses.t = "nil" THEN Ret(S, Nil)
               ELSE S1)

\* qq_expand without the depth a nested quasiquote adds.
qq_expand_mut(S, expr, depth, env, cx) ==
    LET car == expr.car
        cdr == expr.cdr
        D == qq_expand(S, cdr, IF is_symbol(car, "unquote") THEN depth - 1 ELSE depth, env, cx)
        S1 == qq_expand(S, car, depth, env, cx)
        S2 == qq_expand(S1, cdr, depth, env, cx)
    IN IF ~S.run THEN S
       ELSE IF expr.t # "pair" THEN Ret(S, expr)
       ELSE IF is_symbol(car, "unquote") /\ depth = 1
            THEN (IF cdr.t = "nil" THEN Ret(S, Nil)
                  ELSE Do("eval", <<S, pair_car(cdr), env, cx>>))
       ELSE IF is_symbol(car, "unquote") \/ is_symbol(car, "quasiquote")
            THEN (IF D.run THEN Ret(D, Pair(car, D.val)) ELSE D)
       ELSE IF ~S1.run THEN S1
       ELSE IF ~S2.run THEN Keeping(S2, Do("release", <<S2, S1.val>>))
       ELSE Ret(S2, Pair(S1.val, S2.val))

\* prim quasiquote (qq_expand).  The expansions of the car and of the cdr
\* of a pair are the two arguments of one make_pair call, which C++ leaves
\* unsequenced; the model expands the car first, and its templates never
\* hold two unquotes that can both fail or print.
qq_expand(S, expr, depth, env, cx) ==
    LET car == expr.car
        cdr == expr.cdr
        D == qq_expand(S, cdr, IF is_symbol(car, "unquote") THEN depth - 1 ELSE depth + 1,
                       env, cx)
        S1 == qq_expand(S, car, depth, env, cx)
        S2 == qq_expand(S1, cdr, depth, env, cx)
    IN IF ~S.run THEN S
       ELSE IF expr.t # "pair" THEN Ret(S, expr)
       ELSE IF is_symbol(car, "unquote") /\ depth = 1
            THEN (IF cdr.t = "nil" THEN Ret(S, Nil)
                  ELSE Do("eval", <<S, pair_car(cdr), env, cx>>))
       ELSE IF is_symbol(car, "unquote") \/ is_symbol(car, "quasiquote")
            THEN (IF D.run THEN Ret(D, Pair(car, D.val)) ELSE D)
       ELSE IF ~S1.run THEN S1
       ELSE IF ~S2.run THEN Keeping(S2, Do("release", <<S2, S1.val>>))
       ELSE Ret(S2, Pair(S1.val, S2.val))

PrimNames == {"quote", "unquote", "quasiquote", "set", "fn", "macro", "let", "while", "cond", "apply"}

\* The special forms (register_core): they receive the unevaluated arguments.
Prim(S, name, args, env, cx) ==
    CASE name = "quote" -> Ret(S, pair_car(args))
      [] name = "unquote" ->
           (IF pair_car(args).t = "nil" THEN Ret(S, Nil)
            ELSE Do("eval", <<S, pair_car(args), env, cx>>))
      [] name = "quasiquote" -> qq_expand(S, pair_car(args), 1, env, cx)
      [] name = "set" ->
           LET S1 == Do("eval", <<S, pair_car(pair_cdr(args)), env, cx>>)
           IN IF S1.run THEN set(S1, pair_car(args), S1.val, env) ELSE S1
      [] name = "fn" -> make_function(S, pair_car(args), pair_cdr(args), env)
      [] name = "macro" -> make_macro(S, pair_car(args), pair_cdr(args), env)
      [] name = "let" ->
           LET e == NewEnvId(S)
               S1 == LetBind(make_env(S, env), pair_car(args), e, cx)
               S2 == do_list(S1, pair_cdr(args), e, cx)
           IN Keeping(S2, release_env(S2, e))
      [] name = "while" -> WhileLoop(S, pair_car(args), pair_cdr(args), env, cx, Nil)
      [] name = "cond" -> CondLoop(S, args, env, cx)
      [] name = "apply" ->
           LET S1 == Do("eval", <<S, pair_car(args), env, cx>>)
               S2 == Do("eval", <<S1, pair_car(pair_cdr(args)), env, cx>>)
               S3 == Do("call", <<S2, S1.val, S2.val, cx>>)
           IN IF pair_car(args).t = "nil" THEN Throw(S, <<"apply requires a function">>)
              ELSE IF ~S1.run THEN S1
              ELSE IF ~S2.run THEN Keeping(S2, Do("release", <<S2, S1.val>>))
              ELSE Keeping(S3, Do("release", <<S3, S1.val>>))

\* ---------------------------------------------------------------- emitter
\* JITIREmitter.  The emitted function is kept as a sequence of IR trees that
\* execute in emission order.  The emitter state E carries
\*   ok      FALSE once an emit* returned nullptr
\*   ub      the emitter itself read a deleted record
\*   v       the tree of the value just emitted
\*   inst    the value is an llvm::Instruction (FALSE: a folded Constant)
\*   blk     the basic block the instruction lives in
\*   cv      the constant, when inst is FALSE
\*   locals  names that own an alloca (function-wide, never removed)
\*   cur     the insertion block: the only block without a terminator
\*   nb      the next unused block number (0 is the entry block)
\* K is the compile-time context: the world S, the closure env and param_index.
EntryBlock == 0

RECURSIVE ParamIndex(_, _)
ParamIndex(p, idx) ==
    IF p.t = "sym" THEN (p.s :> idx)
    ELSE IF p.t # "pair" THEN <<>>
    ELSE IF p.car.t = "sym" THEN ParamIndex(p.cdr, idx + 1) @@ (p.car.s :> idx)
    ELSE ParamIndex(p.cdr, idx)

EConst(E, d) == [E EXCEPT !.v = [op |-> "const", d |-> d], !.inst = FALSE, !.cv = d]
EInst(E, node) == [E EXCEPT !.v = node, !.inst = TRUE, !.blk = E.cur]
EFail(E) == [E EXCEPT !.ok = FALSE]

RECURSIVE emitExpr(_, _, _)
RECURSIVE EmitSeq(_, _, _)
RECURSIVE CondClauses(_, _, _)
RECURSIVE LetStores(_, _, _, _)

\* A run of expressions emitted in order (argument lists and bodies):
\* vs the trees, is / bs / cs the inst, blk and cv of each.
EmitSeq(K, E, list) ==
    LET E1 == Do("emitExpr", <<K, E, list.car>>)
        E2 == EmitSeq(K, E1, list.cdr)
    IN CASE list.t = "pair" /\ E1.ok /\ E2.ok ->
              [E2 EXCEPT !.vs = <<E1.v>> \o @, !.is = <<E1.inst>> \o @,
                         !.bs = <<E1.blk>> \o @, !.cs = <<E1.cv>> \o @]
         [] OTHER ->
              (IF list.t # "pair"
               THEN [E EXCEPT !.vs = <<>>, !.is = <<>>, !.bs = <<>>, !.cs = <<>>]
               ELSE IF ~E1.ok THEN E1
               ELSE E2)

\* `last` of a body: its final value, the constant 0.0 for an empty body.
BodyLast(E, node) ==
    IF E.vs = <<>> THEN [E EXCEPT !.v = node, !.inst = FALSE, !.cv = DInt(0)]
    ELSE [E EXCEPT !.v = node, !.inst = Last(E.is), !.blk = Last(E.bs), !.cv = Last(E.cs)]

\* JITIREmitter::compileCond
CondClauses(K, E, walk) ==
    LET clause == walk.car
        E1 == Do("emitExpr", <<K, E, IF is_pair(clause) THEN clause.car ELSE Nil>>)
        E2 == EmitSeq(K, [E1 EXCEPT !.cur = E1.nb, !.nb = @ + 2],
                      IF is_pair(clause) THEN clause.cdr ELSE Nil)
        E3 == CondClauses(K, [E2 EXCEPT !.cur = E1.nb + 1], walk.cdr)
    IN CASE walk.t = "pair" /\ E1.ok /\ E2.ok /\ E3.ok ->
              [E3 EXCEPT !.cls = <<[test |-> E1.v, body |-> E2.vs]>> \o @]
         [] OTHER ->
              (IF walk.t # "pair" THEN [E EXCEPT !.cls = <<>>]
               ELSE IF ~E1.ok THEN E1
               ELSE IF ~E2.ok THEN E2
               ELSE E3)

compileCond(K, E, clauses) ==
    LET cont == E.nb
        E1 == CondClauses(K, [E EXCEPT !.nb = @ + 1], clauses)
    IN CASE clauses.t = "nil" -> EConst(E, DInt(0))
         [] clauses.t # "nil" /\ E1.ok ->
              EInst([E1 EXCEPT !.cur = cont], [op |-> "cond", cls |-> E1.cls])
         [] OTHER -> E1

\* JITIREmitter::compileWhile: the value handed on is `last`, the value the
\* body block computed.
compileWhile(K, E, rest) ==
    LET E1 == Do("emitExpr", <<K, [E EXCEPT !.cur = E.nb, !.nb = @ + 3], pair_car(rest)>>)
        E2 == EmitSeq(K, [E1 EXCEPT !.cur = E.nb + 1], rest.cdr)
        E3 == BodyLast(E2, Nil)
    IN CASE rest.t = "pair" /\ E1.ok /\ E2.ok ->
              [E3 EXCEPT !.cur = E.nb + 2,
                         !.v = [op |-> "while", test |-> E1.v, body |-> E2.vs,
                                lastinst |-> E3.inst, lastcv |-> E3.cv]]
         [] OTHER ->
              (IF rest.t # "pair" THEN [E EXCEPT !.ub = TRUE, !.ok = FALSE]
               ELSE IF ~E1.ok THEN E1
               ELSE E2)

\* JITIREmitter::compileLet: both binding forms; each value is emitted before
\* its name gets (or reuses) a function-wide alloca.
LetStores(K, E, b, alt) ==
    LET name == IF alt THEN pair_car(pair_car(b)) ELSE pair_car(b)
        next == pair_cdr(b)
        val == IF alt THEN pair_car(pair_cdr(pair_car(b))) ELSE pair_car(next)
        E1 == Do("emitExpr", <<K, E, val>>)
        E2 == LetStores(K, [E1 EXCEPT !.locals = @ \cup {name.s}],
                        IF alt THEN next ELSE pair_cdr(next), alt)
    IN CASE b.t # "nil" /\ name.t = "sym" /\ (alt \/ next.t # "nil") /\ E1.ok /\ E2.ok ->
              [E2 EXCEPT !.sts = <<[name |-> name.s, val |-> E1.v]>> \o @]
         [] OTHER ->
              (IF b.t = "nil" THEN [E EXCEPT !.sts = <<>>]
               ELSE IF name.t # "sym" THEN EFail(E)
               ELSE IF ~alt /\ next.t = "nil" THEN EFail(E)
               ELSE IF ~E1.ok THEN E1
               ELSE E2)

compileLet(K, E, rest) ==
    LET b == pair_car(rest)
        E1 == LetStores(K, E, b, is_pair(b) /\ is_pair(pair_car(b)))
        E2 == EmitSeq(K, E1, rest.cdr)
    IN CASE rest.t = "pair" /\ E1.ok /\ E2.ok ->
              BodyLast(E2, [op |-> "let", sts |-> E1.sts, body |-> E2.vs])
         [] OTHER ->
              (IF rest.t # "pair" THEN [E EXCEPT !.ub = TRUE, !.ok = FALSE]
               ELSE IF ~E1.ok THEN E1
               ELSE E2)

\* The value bound to `name` on the closure chain, nil when unbound.
FoundOnChain(S, env, name) ==
    IF FindEnv(S.envs, env, name) = NoEnv THEN Nil
    ELSE S.envs[FindEnv(S.envs, env, name)].map[name]

\* JITIREmitter::emitExpr
emitExpr(K, E, expr) ==
    LET headed == expr.t = "pair" /\ expr.car.t = "sym"
        opname == expr.car.s
        applied == headed /\ opname \notin {"cond", "while", "let"}
        E1 == EmitSeq(K, E, expr.cdr)
        found == FoundOnChain(K.S, K.env, opname)
        fold == ~E1.is[1] /\ ~E1.is[2]
    IN CASE expr.t = "nil" -> EConst(E, DInt(0))
         [] expr.t = "num" -> EConst(E, expr.v)
         [] expr.t = "sym" ->
              (IF expr.s = "#t" THEN EConst(E, DInt(1))
               ELSE IF expr.s \in DOMAIN K.pidx THEN EInst(E, [op |-> "arg", i |-> K.pidx[expr.s]])
               ELSE IF expr.s \in E.locals THEN EInst(E, [op |-> "local", name |-> expr.s])
               ELSE EInst(E, [op |-> "lookup", env |-> K.env, name |-> expr.s]))
         [] headed /\ opname = "cond" -> compileCond(K, E, expr.cdr)
         [] headed /\ opname = "while" -> compileWhile(K, E, expr.cdr)
         [] headed /\ opname = "let" -> compileLet(K, E, expr.cdr)
         [] applied /\ ~E1.ok -> E1
         [] applied /\ E1.ok ->
              (IF opname \in ArithNames THEN
                  (IF Len(E1.vs) # 2 THEN EFail(E1)
                   ELSE IF fold THEN [E1 EXCEPT !.v = [op |-> "bin", f |-> opname, l |-> E1.vs[1], r |-> E1.vs[2]],
                                                !.inst = FALSE, !.cv = ArithOp(opname, E1.cs[1], E1.cs[2])]
                   ELSE EInst(E1, [op |-> "bin", f |-> opname, l |-> E1.vs[1], r |-> E1.vs[2]]))
               ELSE IF opname \in CmpNames \cup {"="} THEN
                  (IF Len(E1.vs) # 2 THEN EFail(E1)
                   ELSE IF fold THEN [E1 EXCEPT !.v = [op |-> "cmp", f |-> opname, l |-> E1.vs[1], r |-> E1.vs[2]],
                                                !.inst = FALSE,
                                                !.cv = IF CmpOp(opname, E1.cs[1], E1.cs[2]) THEN DInt(1) ELSE DInt(0)]
                   ELSE EInst(E1, [op |-> "cmp", f |-> opname, l |-> E1.vs[1], r |-> E1.vs[2]]))
               ELSE IF found.t # "func" THEN EFail(E1)
               ELSE IF Dangling(K.S, found) THEN [E1 EXCEPT !.ub = TRUE, !.ok = FALSE]
               ELSE EInst(E1, [op |-> "call", fd |-> found.id,
                               direct |-> K.S.funcs[found.id].code, args |-> E1.vs]))
         [] OTHER -> EFail(E)

\* build_func_ir: the body in order, then the `ret`.  The ret lands in the
\* block of the last value when that is an instruction of the unterminated
\* block, otherwise it is appended to the entry block: the function is well
\* formed (wf) only if the entry block was still unterminated.
build_func_ir(S, id) ==
    LET fd == S.funcs[id]
        K == [S |-> S, env |-> fd.env, pidx |-> ParamIndex(fd.params, 0)]
        E0 == [ok |-> TRUE, ub |-> FALSE, v |-> Nil, inst |-> FALSE, blk |-> EntryBlock,
               cv |-> DInt(0), locals |-> {}, cur |-> EntryBlock, nb |-> 1,
               vs |-> <<>>, is |-> <<>>, bs |-> <<>>, cs |-> <<>>, cls |-> <<>>, sts |-> <<>>]
        E1 == EmitSeq(K, E0, fd.body)
        E2 == BodyLast(E1, Nil)
    IN IF E1.ok
       THEN [ok |-> TRUE, ub |-> FALSE, ir |-> E1.vs,
             wf |-> (E2.inst /\ E2.blk = E1.cur) \/ E1.cur = EntryBlock]
       ELSE [ok |-> FALSE, ub |-> E1.ub, ir |-> <<>>, wf |-> FALSE]

\* ------------------------------------------------------------ native code
\* Execution of an emitted function.  S.d is the double just computed, S.ds
\* the evaluated operands of a call, S.loc the allocas of the running
\* activation.  Undef is the content of a register or alloca never written.
Undef == <<0, -1>>

NArith(f, a, b) == IF a = Undef \/ b = Undef THEN Undef ELSE ArithOp(f, a, b)
NCmp(f, a, b) ==
    IF a = Undef \/ b = Undef THEN Undef
    ELSE IF CmpOp(f, a, b) THEN DInt(1) ELSE DInt(0)
\* fcmp one x, 0.0
IsTrue(d) == ~DIsNaN(d) /\ ~DEq(d, DInt(0))

RetD(S, d) == [S EXCEPT !.d = d]

RECURSIVE NEval(_, _, _, _)
RECURSIVE NSeq(_, _, _, _)
RECURSIVE NArgs(_, _, _, _)
RECURSIVE NCond(_, _, _, _)
RECURSIVE NWhile(_, _, _, _, _)
RECURSIVE NStores(_, _, _, _)
RECURSIVE NativeRun(_, _, _, _)
RECURSIVE VDLISP__call_from_jit(_, _, _, _)

\* VDLISP__jit_lookup_number: NaN unless the nearest binding is a number.
VDLISP__jit_lookup_number(S, env_ptr, name) ==
    LET e == IF env_ptr # NoEnv THEN env_ptr ELSE IF S.active THEN GlobalEnv ELSE NoEnv
        v == FoundOnChain(S, e, name)
    IN IF e # NoEnv /\ e \notin DOMAIN S.envs THEN Fault(S, "use-after-free env")
       ELSE IF e = NoEnv \/ v.t # "num" THEN RetD(S, DNaN)
       ELSE RetD(S, v.v)

NSeq(S, nodes, args, cx) ==
    CASE S.fault = "" /\ Len(nodes) = 1 -> Do("NEval", <<S, nodes[1], args, cx>>)
      [] S.fault = "" /\ Len(nodes) > 1 ->
           NSeq(Do("NEval", <<S, nodes[1], args, cx>>), Tail(nodes), args, cx)
      [] OTHER -> (IF S.fault # "" THEN S ELSE RetD(S, DInt(0)))

NArgs(S, nodes, args, cx) ==
    IF S.fault # "" \/ nodes = <<>> THEN [S EXCEPT !.ds = <<>>]
    ELSE LET S1 == Do("NEval", <<S, nodes[1], args, cx>>)
             S2 == NArgs(S1, Tail(nodes), args, cx)
         IN [S2 EXCEPT !.ds = <<S1.d>> \o @]

NCond(S, cls, args, cx) ==
    LET S1 == Do("NEval", <<S, cls[1].test, args, cx>>)
        decided == S.fault = "" /\ cls # <<>> /\ S1.fault = "" /\ S1.d # Undef
    IN CASE decided /\ IsTrue(S1.d) -> NSeq(S1, cls[1].body, args, cx)
         [] decided /\ ~IsTrue(S1.d) -> NCond(S1, Tail(cls), args, cx)
         [] OTHER ->
              (IF S.fault # "" THEN S
               ELSE IF cls = <<>> THEN RetD(S, DInt(0))
               ELSE IF S1.fault # "" THEN S1
               ELSE Fault(S1, "branch on undef"))

NWhile(S, node, args, cx, last) ==
    LET S1 == Do("NEval", <<S, node.test, args, cx>>)
        S2 == NSeq(S1, node.body, args, cx)
    IN CASE S.fault = "" /\ cx.fuel # 0 /\ S1.fault = "" /\ S1.d # Undef
              /\ IsTrue(S1.d) /\ S2.fault = "" ->
              NWhile(S2, node, args, Burn(cx), S2.d)
         [] OTHER ->
              (IF S.fault # "" THEN S
               ELSE IF cx.fuel = 0 THEN Fault(S, "no termination")
               ELSE IF S1.fault # "" THEN S1
               ELSE IF S1.d = Undef THEN Fault(S1, "branch on undef")
               ELSE IF ~IsTrue(S1.d) THEN RetD(S1, IF node.lastinst THEN last ELSE node.lastcv)
               ELSE S2)

NStores(S, sts, args, cx) ==
    LET S1 == Do("NEval", <<S, sts[1].val, args, cx>>)
    IN CASE S.fault = "" /\ sts # <<>> /\ S1.fault = "" ->
              NStores([S1 EXCEPT !.loc = (sts[1].name :> S1.d) @@ @], Tail(sts), args, cx)
         [] OTHER -> (IF S.fault # "" \/ sts = <<>> THEN S ELSE S1)

NEval(S, node, args, cx) ==
    IF S.fault # "" THEN S
    ELSE CASE node.op = "const" -> RetD(S, node.d)
           [] node.op = "arg" ->
                (IF node.i + 1 > Len(args) THEN Fault(S, "argument read out of bounds")
                 ELSE RetD(S, args[node.i + 1]))
           [] node.op = "local" ->
                RetD(S, IF node.name \in DOMAIN S.loc THEN S.loc[node.name] ELSE Undef)
           [] node.op = "lookup" -> VDLISP__jit_lookup_number(S, node.env, node.name)
           [] node.op = "bin" ->
                LET S1 == Do("NEval", <<S, node.l, args, cx>>)
                    S2 == Do("NEval", <<S1, node.r, args, cx>>)
                IN IF S1.fault = "" /\ S2.fault = ""
                   THEN RetD(S2, NArith(node.f, S1.d, S2.d))
                   ELSE S2
           [] node.op = "cmp" ->
                LET S1 == Do("NEval", <<S, node.l, args, cx>>)
                    S2 == Do("NEval", <<S1, node.r, args, cx>>)
                IN IF S1.fault = "" /\ S2.fault = ""
                   THEN RetD(S2, NCmp(node.f, S1.d, S2.d))
                   ELSE S2
           [] node.op = "cond" -> NCond(S, node.cls, args, cx)
           [] node.op = "while" -> NWhile(S, node, args, cx, Undef)
           [] node.op = "let" -> NSeq(NStores(S, node.sts, args, cx), node.body, args, cx)
           [] node.op = "call" ->
                LET S1 == NArgs(S, node.args, args, cx)
                IN IF S1.fault = "" /\ (\A k \in 1..Len(S1.ds) : S1.ds[k] # Undef)
                   THEN (IF node.direct THEN NativeRun(S1, node.fd, S1.ds, cx)
                         ELSE VDLISP__call_from_jit(S1, node.fd, S1.ds, cx))
                   ELSE IF S1.fault # "" THEN S1
                   ELSE Fault(S1, "undef operand")

\* One activation of the native entry jit_fn_<id>(args, argc).
NativeRun(S, id, args, cx) ==
    LET m == S.mods[id]
        S1 == NSeq([S EXCEPT !.loc = <<>>], m.ir, args, Burn(cx))
        entered == S.fault = "" /\ cx.fuel # 0 /\ id \in DOMAIN S.mods /\ m.wf
    IN CASE entered /\ S1.fault = "" /\ id \in DOMAIN S1.mods /\ S1.d # Undef ->
              [S1 EXCEPT !.loc = S.loc]
         [] OTHER ->
              (IF S.fault # "" THEN S
               ELSE IF cx.fuel = 0 THEN Fault(S, "stack overflow")
               ELSE IF id \notin DOMAIN S.mods THEN Fault(S, "call into released code")
               ELSE IF ~m.wf THEN Fault(S, "malformed IR")
               ELSE IF S1.fault # "" THEN S1
               ELSE IF id \notin DOMAIN S1.mods THEN Fault(S1, "code released while running")
               ELSE Fault(S1, "undef returned"))

\* VDLISP__call_from_jit: the bridge wraps fd in a Value without retaining
\* it, calls State::call on a list of numbers, turns a non-number or an
\* exception into NaN, and destroys its Values (res, head, fptr) on return.
VDLISP__call_from_jit(S, fd, args, cx) ==
    LET head == list_of([k \in 1..Len(args) |-> make_number(args[k])])
        S1 == Do("call", <<Note(S, <<"bridge", fd, Depth(cx)>>), Func(fd), head, cx>>)
        d == IF S1.err # NoErr \/ S1.val.t # "num" THEN DNaN ELSE S1.val.v
        S2 == Do("release", <<[S1 EXCEPT !.err = NoErr, !.run = TRUE], S1.val>>)
        S3 == Do("release", <<S2, Func(fd)>>)
    IN CASE S.active /\ S1.fault = "" -> RetD([S3 EXCEPT !.val = Nil], d)
         [] OTHER -> (IF ~S.active THEN RetD(Note(S, <<"refused", fd, Depth(cx)>>), DNaN) ELSE S1)

\* --------------------------------------------------------------- compiler
RECURSIVE collect_called_funcs(_, _, _)
RECURSIVE CollectElems(_, _, _)
RECURSIVE compileFuncData(_, _, _)
RECURSIVE CompileCallees(_, _, _, _)

\* collect_called_funcs: the function records bound, on the closure chain,
\* to the symbol in head position of any list inside the body.
collect_called_funcs(S, expr, closure) ==
    IF expr.t # "pair" THEN <<>>
    ELSE LET v == IF expr.car.t = "sym" THEN FoundOnChain(S, closure, expr.car.s) ELSE Nil
         IN (IF v.t = "func" THEN <<v.id>> ELSE <<>>) \o CollectElems(S, expr, closure)

CollectElems(S, walk, closure) ==
    IF walk.t # "pair" THEN <<>>
    ELSE collect_called_funcs(S, walk.car, closure) \o CollectElems(S, walk.cdr, closure)

CompileCallees(S, to_compile, func, fuel) ==
    IF S.fault # "" \/ to_compile = <<>> THEN S
    ELSE LET fd == S.funcs[Head(to_compile)]
         IN IF ~fd.alive THEN Fault(S, "use-after-free func")
            ELSE IF ~fd.code /\ ~fd.failed /\ Head(to_compile) # func
                 THEN CompileCallees(Do("compileFuncData", <<S, Head(to_compile), fuel - CompileStep>>),
                                     Tail(to_compile), func, fuel)
                 ELSE CompileCallees(S, Tail(to_compile), func, fuel)

\* JITCompiler::compileFuncData: callees first, then the function itself;
\* S.ptr tells whether a code pointer was returned.
compileFuncData(S, func, fuel) ==
    LET S1 == CompileCallees(S, collect_called_funcs(S, S.funcs[func].body, S.funcs[func].env),
                             func, fuel)
        m == build_func_ir(S1, func)
    IN CASE S.fault = "" /\ fuel > 0 /\ S1.fault = "" /\ m.ok ->
              Note([S1 EXCEPT !.funcs[func].code = TRUE, !.ptr = TRUE,
                              !.mods = (func :> [ir |-> m.ir, wf |-> m.wf]) @@ @],
                   <<"synth", func, TRUE>>)
         [] OTHER ->
              (IF S.fault # "" THEN S
               ELSE IF fuel <= 0 THEN Fault(S, "stack overflow")
               ELSE IF S1.fault # "" THEN S1
               ELSE IF m.ub THEN Fault(S1, "use-after-free func")
               ELSE Note([S1 EXCEPT !.funcs[func].failed = TRUE, !.ptr = FALSE],
                         <<"synth", func, FALSE>>))

\* A call of an operation by its name.
Do(op, a) ==
    CASE op = "release" -> release(a[1], a[2])
      [] op = "eval" -> eval(a[1], a[2], a[3], a[4])
      [] op = "call" -> call(a[1], a[2], a[3], a[4])
      [] op = "do_list" -> do_list(a[1], a[2], a[3], a[4])
      [] op = "MacroCall" -> MacroCall(a[1], a[2], a[3], a[4], a[5])
      [] op = "require" -> require(a[1], a[2], a[3])
      [] op = "shutdown_and_purge_pools" -> shutdown_and_purge_pools(a[1])
      [] op = "emitExpr" -> emitExpr(a[1], a[2], a[3])
      [] op = "NEval" -> NEval(a[1], a[2], a[3], a[4])
      [] op = "compileFuncData" -> compileFuncData(a[1], a[2], a[3])

\* ------------------------------------------------------------ State::call
\* Lines 531-546: count the numeric call and compile once hot.
\* The hot path without the jit-failed test of line 534.
HotPath_mut(S, id, cx) ==
    LET S1 == [S EXCEPT !.funcs[id].ncalls = @ + 1]
        fd == S1.funcs[id]
        S2 == Do("compileFuncData", <<S1, id, cx.fuel>>)
    IN IF fd.ncalls > JitThreshold /\ ~fd.code
       THEN (IF S2.fault # "" THEN S2
             ELSE IF S2.ptr THEN [S2 EXCEPT !.funcs[id].code = TRUE]
             ELSE [S2 EXCEPT !.funcs[id].failed = TRUE])
       ELSE S1

HotPath(S, id, cx) ==
    LET S1 == [S EXCEPT !.funcs[id].ncalls = @ + 1]
        fd == S1.funcs[id]
        S2 == Do("compileFuncData", <<S1, id, cx.fuel>>)
    IN IF fd.ncalls > JitThreshold /\ ~fd.code /\ ~fd.failed
       THEN (IF S2.fault # "" THEN S2
             ELSE IF S2.ptr THEN [S2 EXCEPT !.funcs[id].code = TRUE]
             ELSE [S2 EXCEPT !.funcs[id].failed = TRUE])
       ELSE S1

\* Lines 583-601 (and 572-578 after a deopt): a fresh child of the closure
\* env, parameters bound, body evaluated; on the first path (annotated) an
\* error of the body is given the frame of the call site.
InterpCall(S, id, args, cx, annotated) ==
    LET fd == S.funcs[id]
        e == NewEnvId(S)
        S1 == make_env(S, IF fd.env = NoEnv THEN GlobalEnv ELSE fd.env)
        S2 == bind_params_to_env(S1, e, fd.params, args, FALSE)
        S3 == do_list(S2, fd.body, e, Burn(cx))
        have_call_loc == annotated /\ has_source_loc(S2, S2.current_expr)
        call_loc == [source_loc(S2, S2.current_expr) EXCEPT !.label = "fn"]
        S4 == with_call_chain(have_call_loc, call_loc, <<call_loc>>, S3)
    IN CASE S3.run /\ S3.funcs[id].alive -> Keeping(S3, release_env(S3, e))
         [] OTHER ->
              (IF S3.fault # "" THEN S3
               ELSE IF ~S3.funcs[id].alive THEN Fault(S3, "function deleted while running")
               ELSE Keeping(S4, release_env(S4, e)))

\* The native entry cannot raise a C++ exception: the helpers it calls are
\* noexcept.
\* A native entry whose NaN is taken for an exception.
jit_threw_mut == TRUE

jit_threw == FALSE

\* Lines 548-581: native dispatch, NaN is the deopt signal.
NativeDispatch(S, id, args, darr, cx) ==
    LET S1 == NativeRun(Note([S EXCEPT !.active = TRUE], <<"native", id, Depth(cx)>>), id, darr, cx)
        S2 == [S1 EXCEPT !.active = FALSE]
        S3 == IF jit_threw
              THEN [S2 EXCEPT !.funcs[id].code = FALSE, !.funcs[id].failed = TRUE]
              ELSE S2
    IN IF S1.fault # "" THEN S1
       ELSE IF DIsNaN(S2.d) THEN InterpCall(Note(S3, <<"deopt", id, Depth(cx)>>), id, args, cx, FALSE)
       ELSE Ret(Note(S2, <<"result", id, Depth(cx)>>), make_number(S2.d))

CallFunc(S, id, args, cx) ==
    LET els == ListToSeq(args)
        numeric == \A k \in 1..Len(els) : els[k].t = "num"
        S1 == IF numeric /\ cx.jit THEN HotPath(S, id, cx) ELSE S
        entered == cx.fuel # 0 /\ S.funcs[id].alive /\ S1.fault = ""
    IN CASE entered /\ cx.jit /\ numeric /\ S1.funcs[id].code ->
              NativeDispatch(S1, id, args, [k \in 1..Len(els) |-> els[k].v], cx)
         [] entered /\ ~(cx.jit /\ numeric /\ S1.funcs[id].code) -> InterpCall(S1, id, args, cx, TRUE)
         [] OTHER ->
              (IF cx.fuel = 0 THEN Fault(S, "stack overflow")
               ELSE IF ~S.funcs[id].alive THEN Fault(S, "use-after-free func")
               ELSE S1)

\* ------------------------------------------------------------------ State
\* State::State + register_core: the global environment binds #t to the
\* symbol #t and every special form and builtin the model's scripts reach.
GlobalMap ==
    [n \in BuiltinNames \cup PrimNames \cup {"#t"} |->
        IF n \in PrimNames THEN PrimV(n)
        ELSE IF n = "#t" THEN Sym("#t")
        ELSE CFuncV(n)]

InitWorld ==
    [envs |-> (GlobalEnv :> [parent |-> NoEnv, map |-> GlobalMap, refs |-> 1]),
     funcs |-> <<>>, mods |-> <<>>, out |-> <<>>, val |-> Nil, err |-> NoErr,
     fault |-> "", run |-> TRUE, active |-> FALSE, log |-> <<>>,
     d |-> DInt(0), ds |-> <<>>, loc |-> <<>>, ptr |-> FALSE,
     current_expr |-> Nil, src_map |-> EmptyMap, src_call_chain_map |-> EmptyMap, pe |-> NoPE,
     global |-> GlobalEnv, loaded_modules |-> EmptyMap, hist |-> <<>>]

\* The echo of a turn of the REPL loop: print the text of the result and
\* drop the result; nothing is printed after an exception.
ReplEcho(S1) ==
    LET S2 == [S1 EXCEPT !.d = DInt(0), !.ds = <<>>, !.loc = <<>>, !.ptr = FALSE]
    IN IF S2.fault # "" THEN S2
       ELSE IF S2.err # NoErr THEN S2
       ELSE IF Dangling(S2, S2.val) THEN Fault(S2, "use-after-free func")
       ELSE Keeping(S2, Do("release", <<[S2 EXCEPT !.out = Append(@, <<to_repr(S2, S2.val)>>)], S2.val>>))

\* One turn of the REPL loop (main.cpp, repl): evaluate the form in the
\* global environment, echo the text of the result, drop the result.
ReplEval(S, form, jit) ==
    ReplEcho(Do("eval", <<[S EXCEPT !.out = <<>>, !.log = <<>>, !.val = Nil, !.err = NoErr, !.pe = NoPE,
                            !.run = (S.fault = ""),
                            !.d = DInt(0), !.ds = <<>>, !.loc = <<>>, !.ptr = FALSE],
                  form, GlobalEnv, [fuel |-> MaxFuel, jit |-> jit]>>))

\* report_exception: the message, the primary location (NoLoc when the
\* message is printed without one) and the call chain printed under it.
report_exception(S) ==
    LET at == S.current_expr
    IN IF S.err = NoErr THEN [msg |-> NoErr, loc |-> NoLoc, chain |-> <<>>]
       ELSE IF S.pe.is THEN [msg |-> S.err, loc |-> S.pe.loc, chain |-> S.pe.call_chain]
       ELSE IF has_source_loc(S, at)
            THEN [msg |-> S.err, loc |-> source_loc(S, at),
                  chain |-> IF at \in DOMAIN S.src_call_chain_map
                            THEN S.src_call_chain_map[at] ELSE <<>>]
       ELSE [msg |-> S.err, loc |-> NoLoc, chain |-> <<>>]

\* One line typed at the prompt (the body of the loop of repl): an empty
\* line and a line that reads as nil are skipped, any other line is read
\* and evaluated.
ReplLine(S, line, jit) ==
    LET S0 == [S EXCEPT !.out = <<>>, !.log = <<>>, !.val = Nil, !.err = NoErr, !.pe = NoPE,
                        !.run = (S.fault = "")]
        S1 == parse(S0, line)
    IN IF line = "" THEN S0
       ELSE IF ~S1.run \/ S1.val.t = "nil" THEN S1
       ELSE ReplEval(S1, S1.val, jit)

\* What the user sees of one turn: the value, the error, the printed lines
\* (the echo last) and the global bindings the session has made or changed.
UserGlobals(S) ==
    [n \in {m \in DOMAIN S.envs[GlobalEnv].map :
               m \notin DOMAIN GlobalMap \/ S.envs[GlobalEnv].map[m] # GlobalMap[m]}
        |-> S.envs[GlobalEnv].map[n]]

Observe(S) ==
    [val |-> S.val, err |-> S.err, out |-> S.out, globals |-> UserGlobals(S)]

\* After undefined behaviour the build may show anything; these stand for
\* a crash and for plausible garbage.
Garbage == {Str("<crash>"), Str("function"), Str("jit_func"), Nil, Num(0)}
UBObservations(S) ==
    {[val |-> g, err |-> NoErr, out |-> <<<<to_repr(InitWorld, g)>>>>,
      globals |-> UserGlobals(S)] : g \in Garbage}

\* ---------------------------------------------------------------- scripts
L(seq) == list_of(seq)
App(f, args) == Pair(Sym(f), list_of(args))
Fn(params, body) == Pair(Sym("fn"), Pair(params, list_of(body)))
SetForm(name, expr) == L(<<Sym("set"), Sym(name), expr>>)
DefFn(name, params, body) == SetForm(name, Fn(params, body))
X == Sym("x")

\* tests/jit_control_forms.lisp, lines 4, 15 and 26
f_cond ==
    DefFn("f_cond", L(<<X>>),
          <<App("cond", <<L(<<App(">", <<X, Num(0)>>), X>>),
                          L(<<Sym("#t"), App("-", <<X>>)>>)>>)>>)
f_let ==
    DefFn("f_let", L(<<X>>),
          <<App("let", <<L(<<Sym("a"), X>>), App("+", <<Sym("a"), Num(1)>>)>>)>>)
f_while ==
    DefFn("f_while", L(<<Sym("n")>>),
          <<App("let", <<L(<<Sym("i"), Num(0), Sym("s"), Num(0)>>),
                         App("while", <<App("<", <<Sym("i"), Sym("n")>>),
                                        SetForm("s", App("+", <<Sym("s"), Num(1)>>)),
                                        SetForm("i", App("+", <<Sym("i"), Num(1)>>))>>),
                         Sym("s")>>)>>)

Progs == {"inc", "ctl", "truthy", "free", "effects", "variadic", "shadow", "altlet", "nest", "rec",
          "short", "qq", "twice", "stale", "mutual"}

\* The definitions each session starts with.
Setup(p) ==
    CASE p = "inc" -> <<DefFn("f", L(<<X>>), <<App("+", <<X, Num(1)>>)>>)>>
      [] p = "ctl" -> <<f_cond, f_let, f_while>>
      [] p = "truthy" ->
           <<DefFn("t0", L(<<X>>), <<App("cond", <<L(<<X, Num(1)>>), L(<<Sym("#t"), Num(2)>>)>>)>>),
             DefFn("t1", L(<<X>>), <<App("cond", <<L(<<App(">", <<X, Num(0)>>), Num(1)>>),
                                                   L(<<Num(1), Num(0)>>)>>)>>)>>
      [] p = "free" ->
           <<SetForm("y", Num(10)),
             DefFn("g", L(<<X>>), <<App("+", <<X, Sym("y")>>)>>)>>
      [] p = "effects" ->
           <<DefFn("k", L(<<X>>), <<App("print", <<X>>)>>),
             SetForm("k2", Sym("k")),
             SetForm("y", Num(1)),
             DefFn("F", L(<<X>>), <<App("+", <<App("k", <<X>>), Sym("y")>>)>>)>>
      [] p = "variadic" ->
           <<DefFn("v1", Sym("args"), <<Num(7)>>),
             DefFn("v2", Pair(Sym("a"), Sym("rest")), <<App("+", <<Sym("a"), Num(1)>>)>>)>>
      [] p = "shadow" ->
           <<SetForm("y", Num(10)),
             DefFn("s1", L(<<X>>), <<App("let", <<L(<<X, Num(5)>>), X>>)>>),
             DefFn("s2", L(<<X>>), <<App("+", <<App("let", <<L(<<Sym("y"), Num(1)>>), Sym("y")>>),
                                                Sym("y")>>)>>),
             DefFn("s3", L(<<X>>), <<App("let", <<L(<<Sym("a"), Num(5)>>),
                                                  App("+", <<Sym("a"), X>>)>>)>>)>>
      [] p = "altlet" ->
           <<DefFn("a1", L(<<X>>), <<App("let", <<L(<<L(<<Sym("a"), X>>), L(<<Sym("b"), Num(2)>>)>>),
                                                  App("+", <<Sym("a"), Sym("b")>>)>>)>>),
             DefFn("a2", L(<<X>>), <<App("let", <<L(<<Sym("a"), X, Sym("b"), Num(2)>>),
                                                  App("+", <<Sym("a"), Sym("b")>>)>>)>>)>>
      [] p = "nest" ->
           <<DefFn("h", L(<<X>>), <<App("+", <<X, Num(1)>>)>>),
             DefFn("g", L(<<X>>), <<App("h", <<App("+", <<X, Num(2)>>)>>)>>)>>
      [] p = "rec" ->
           <<DefFn("r", L(<<Sym("n")>>),
                   <<App("cond", <<L(<<App(">", <<Sym("n"), Num(0)>>),
                                       App("+", <<App("r", <<App("-", <<Sym("n"), Num(1)>>)>>),
                                                  Sym("n")>>)>>),
                                   L(<<Sym("#t"), Num(0)>>)>>)>>)>>
      [] p = "short" -> <<DefFn("sh", L(<<X, Sym("y")>>), <<App("+", <<X, Sym("y")>>)>>)>>
      [] p = "qq" -> <<SetForm("y", Num(10))>>
      [] p = "twice" ->
           <<DefFn("w", L(<<Sym("n")>>),
                   <<App("cond", <<L(<<App(">", <<Sym("n"), Num(0)>>),
                                       App("+", <<App("w", <<App("-", <<Sym("n"), Num(1)>>)>>),
                                                  App("w", <<App("-", <<Sym("n"), Num(1)>>)>>)>>)>>),
                                   L(<<Sym("#t"), Num(1)>>)>>)>>),
             SetForm("w2", Sym("w"))>>
      [] p = "mutual" ->
           <<DefFn("ev", L(<<Sym("n")>>),
                   <<App("cond", <<L(<<App(">", <<Sym("n"), Num(0)>>),
                                       App("od", <<App("-", <<Sym("n"), Num(1)>>)>>)>>),
                                   L(<<Sym("#t"), Num(1)>>)>>)>>),
             DefFn("od", L(<<Sym("n")>>),
                   <<App("cond", <<L(<<App(">", <<Sym("n"), Num(0)>>),
                                       App("ev", <<App("-", <<Sym("n"), Num(1)>>)>>)>>),
                                   L(<<Sym("#t"), Num(0)>>)>>)>>)>>
      [] p = "stale" ->
           <<DefFn("h", L(<<X>>), <<App("+", <<X, Num(1)>>)>>),
             SetForm("h2", Sym("h")),
             DefFn("g", L(<<X>>), <<App("h", <<App("+", <<X, Num(2)>>)>>)>>)>>

\* Quasiquote templates (tests/pool_test.lisp, lines 124-127, and every
\* nesting of unquote, quasiquote and a two-element list up to MaxNest deep
\* around a bound and an unbound symbol).
MaxNest == 3
QQAtoms == {Sym("a"), Sym("y")}
RECURSIVE QQNested(_)
QQNested(n) ==
    IF n = 0 THEN QQAtoms
    ELSE QQAtoms \cup {App("unquote", <<t>>) : t \in QQNested(n - 1)}
                 \cup {App("quasiquote", <<t>>) : t \in QQNested(n - 1)}
                 \cup {L(<<Sym("a"), t>>) : t \in QQNested(n - 1)}
QQTests ==
    {L(<<Sym("a"), App("unquote", <<App("+", <<Num(1), Num(2)>>)>>)>>),
     L(<<Sym("foo"), App("unquote", <<Sym("y")>>), Sym("bar")>>),
     L(<<Num(1), App("unquote", <<App("+", <<Num(2), Num(3)>>)>>), Num(4)>>),
     L(<<App("unquote", <<Sym("y")>>), App("unquote", <<Sym("y")>>)>>),
     Pair(Sym("a"), App("unquote", <<Sym("y")>>))}
QQTemplates == QQNested(MaxNest) \cup QQTests

\* Calls whose actuals are all numbers.
NumCalls(p) ==
    CASE p = "inc" -> {App("f", <<Num(0)>>), App("f", <<Num(1)>>)}
      [] p = "ctl" -> {App("f_cond", <<Num(1)>>), App("f_let", <<Num(1)>>), App("f_while", <<Num(2)>>)}
      [] p = "truthy" -> {App("t0", <<Num(0)>>), App("t0", <<Num(1)>>), App("t1", <<Num(1)>>)}
      [] p = "free" -> {App("g", <<Num(1)>>)}
      [] p = "effects" -> {App("F", <<Num(1)>>)}
      [] p = "variadic" -> {App("v1", <<Num(1)>>), App("v2", <<Num(1), Num(2)>>)}
      [] p = "shadow" -> {App("s1", <<Num(1)>>), App("s2", <<Num(1)>>), App("s3", <<Num(1)>>)}
      [] p = "altlet" -> {App("a1", <<Num(1)>>), App("a2", <<Num(1)>>)}
      [] p = "nest" -> {App("g", <<Num(1)>>), App("h", <<Num(1)>>)}
      [] p = "rec" -> {App("r", <<Num(0)>>), App("r", <<Num(1)>>)}
      [] p = "short" -> {App("sh", <<>>), App("sh", <<Num(1)>>), App("sh", <<Num(1), Num(2)>>)}
      [] p = "qq" -> {}
      [] p = "twice" -> {App("w", <<Num(0)>>), App("w", <<Num(1)>>)}
      [] p = "stale" -> {App("g", <<Num(1)>>)}
      [] p = "mutual" -> {App("ev", <<Num(0)>>), App("ev", <<Num(1)>>)}

\* Calls with an actual that is not a number.
OtherCalls(p) ==
    CASE p = "inc" -> {App("f", <<Str("a")>>)}
      [] p = "free" -> {App("g", <<Str("a")>>)}
      [] p = "variadic" -> {App("v1", <<Str("a")>>)}
      [] OTHER -> {}

\* Assignments to the free variable of a compiled body, and to the name of
\* a function called in a compiled body.
Rebinds(p) ==
    CASE p = "free" -> {SetForm("y", Str("s")), SetForm("y", Num(10))}
      [] p = "effects" -> {SetForm("y", Str("s")), SetForm("y", Num(1))}
      [] p = "stale" -> {DefFn("h", L(<<X>>), <<App("+", <<X, Num(10)>>)>>), SetForm("h2", Num(0))}
      [] OTHER -> {}

\* The user functions each session defines.
FnNames(p) ==
    CASE p = "inc" -> {"f"}
      [] p = "ctl" -> {"f_cond", "f_let", "f_while"}
      [] p = "truthy" -> {"t0", "t1"}
      [] p = "free" -> {"g"}
      [] p = "effects" -> {"F"}
      [] p = "variadic" -> {"v1", "v2"}
      [] p = "shadow" -> {"s1", "s2", "s3"}
      [] p = "altlet" -> {"a1", "a2"}
      [] p = "nest" -> {"g", "h"}
      [] p = "rec" -> {"r"}
      [] p = "short" -> {"sh"}
      [] p = "qq" -> {}
      [] p = "twice" -> {"w"}
      [] p = "stale" -> {"g"}
      [] p = "mutual" -> {"ev", "od"}

\* (type f) and (print f) for each function, and the two let forms typed
\* directly at the prompt.
Queries(p) ==
    {App("type", <<Sym(n)>>) : n \in FnNames(p)} \cup {App("print", <<Sym(n)>>) : n \in FnNames(p)}
    \cup (IF p = "altlet"
          THEN {App("let", <<L(<<L(<<Sym("a"), Num(1)>>), L(<<Sym("b"), Num(2)>>)>>),
                             App("+", <<Sym("a"), Sym("b")>>)>>),
                App("let", <<L(<<Sym("a"), Num(1), Sym("b"), Num(2)>>),
                             App("+", <<Sym("a"), Sym("b")>>)>>)}
          ELSE {})
    \cup (IF p = "qq" THEN {App("quasiquote", <<t>>) : t \in QQTemplates} ELSE {})

\* ------------------------------------------------------------ the session
\* st    the interpreter's world after the last turn
\* prog  the session's script
\* loaded  how many of its definitions have been typed
\* form  the form of the last turn (nil before the first)
\* kind  which kind of turn it was
\* obs   what the user saw of it
\* ref   what pure interpretation of the same form in the same world shows
VARIABLES st, prog, loaded, form, kind, obs, ref

vars == <<st, prog, loaded, form, kind, obs, ref>>

Init ==
    /\ st = InitWorld
    /\ prog \in Progs
    /\ loaded = 0
    /\ form = Nil
    /\ kind = "init"
    /\ obs = Observe(InitWorld)
    /\ ref = Observe(InitWorld)

\* What a turn leaves, S1 being the world after the form and R1 the world
\* a pure interpreter would leave: the world moves to S1; after undefined
\* behaviour the session is over and the user may have seen anything.
Shown(S1, R1, f, k) ==
    /\ form' = f
    /\ kind' = k
    /\ ref' = Observe(R1)
    /\ IF S1.fault = ""
       THEN st' = S1 /\ obs' = Observe(S1)
       ELSE /\ st' = [st EXCEPT !.fault = S1.fault, !.run = FALSE]
            /\ obs' \in UBObservations(st)
    /\ UNCHANGED prog

\* A turn: the form is evaluated with the compiler on, and by the
\* interpreter alone for reference.
Turn(f, k) ==
    /\ st.fault = ""
    /\ Shown(ReplEval(st, f, TRUE), ReplEval(st, f, FALSE), f, k)

Ready == loaded = Len(Setup(prog))

\* The function record a call form names, 0 when its head is not bound to one.
Callee(S, f) ==
    LET v == FoundOnChain(S, GlobalEnv, f.car.s) IN IF v.t = "func" THEN v.id ELSE 0

Define ==
    /\ loaded < Len(Setup(prog))
    /\ Turn(Setup(prog)[loaded + 1], "define")
    /\ loaded' = loaded + 1

CallNum ==
    /\ Ready
    /\ \E f \in NumCalls(prog) :
         /\ Callee(st, f) # 0
         /\ st.funcs[Callee(st, f)].ncalls < MaxCalls
         /\ Turn(f, "callnum")
    /\ UNCHANGED loaded

CallOther ==
    /\ Ready
    /\ \E f \in OtherCalls(prog) : Turn(f, "callother")
    /\ UNCHANGED loaded

Rebind ==
    /\ Ready
    /\ Len(st.funcs) < MaxFuncs
    /\ \E f \in Rebinds(prog) : Turn(f, "rebind")
    /\ UNCHANGED loaded

Query ==
    /\ Ready
    /\ \E f \in Queries(prog) : Turn(f, "query")
    /\ UNCHANGED loaded

Next == Define \/ CallNum \/ CallOther \/ Rebind \/ Query

Spec == Init /\ [][Next]_vars

\* ------------------------------------------------ host use of State::set
\* An embedding host builds environment chains with make_env, binds in a
\* chosen environment with bind (as let and parameter binding do) and
\* assigns with State::set; it keeps every environment it made.  Every
\* environment it makes starts with a binding of OtherName, which no later
\* operation names.
MaxEnvs == 3
SetNames == {"a"}
OtherName == "b"
SetVals == {Num(1), Num(2)}

InitSet ==
    /\ st = InitWorld
    /\ prog = "host"
    /\ loaded = 0
    /\ form = Nil
    /\ kind = "init"
    /\ obs = Observe(InitWorld)
    /\ ref = Observe(InitWorld)

HostMakeEnv ==
    /\ Cardinality(DOMAIN st.envs) < MaxEnvs
    /\ \E parent \in DOMAIN st.envs :
          st' = bind(make_env(st, parent), Sym(OtherName), Num(0), NewEnvId(st))
    /\ kind' = "make_env"
    /\ form' = Nil
    /\ UNCHANGED <<prog, loaded, obs, ref>>

HostBind ==
    /\ \E e \in DOMAIN st.envs, n \in SetNames, v \in SetVals :
          st' = bind(st, Sym(n), v, e)
    /\ kind' = "bind"
    /\ form' = Nil
    /\ UNCHANGED <<prog, loaded, obs, ref>>

HostSet ==
    /\ \E e \in DOMAIN st.envs, n \in SetNames, v \in SetVals :
          /\ st' = set(st, Sym(n), v, e)
          /\ form' = [t |-> "set", env |-> e, name |-> n, v |-> v]
    /\ kind' = "set"
    /\ UNCHANGED <<prog, loaded, obs, ref>>

NextSet == HostMakeEnv \/ HostBind \/ HostSet

SpecSet == InitSet /\ [][NextSet]_vars

\* ----------------------------------------------------------- properties
\* The function record bound to a global name, 0 when there is none.
GlobalFn(S, n) ==
    LET v == FoundOnChain(S, GlobalEnv, n) IN IF v.t = "func" THEN v.id ELSE 0

\* The events of one kind the last turn logged for a function.
Events(S, tag, id) == {i \in 1..Len(S.log) : S.log[i][1] = tag /\ S.log[i][2] = id}

\* The event belongs to the call typed at the prompt.
AtPrompt(S, tag, id) == \E i \in Events(S, tag, id) : S.log[i][3] = 0

\* The chain of environments from e up to the root.
RECURSIVE Chain(_, _)
Chain(envs, e) == IF e = NoEnv THEN <<>> ELSE <<e>> \o Chain(envs, envs[e].parent)

\* C8: State::set of s in E overwrites the binding of s in the nearest
\* environment on E's parent chain (E first) that binds s, or creates it in
\* E when none does; every other binding, every other environment and every
\* parent link stay as they were.
C8_SetOverwritesNearest ==
    [][kind' = "set" =>
        LET e == form'.env
            n == form'.name
            ch == Chain(st.envs, e)
            binders == {i \in 1..Len(ch) : n \in DOMAIN st.envs[ch[i]].map}
            target == IF binders = {} THEN e
                      ELSE ch[CHOOSE i \in binders : \A j \in binders : i <= j]
        IN /\ DOMAIN st'.envs = DOMAIN st.envs
           /\ n \in DOMAIN st'.envs[target].map
           /\ st'.envs[target].map[n] = form'.v
           /\ \A x \in DOMAIN st.envs :
                /\ st'.envs[x].parent = st.envs[x].parent
                /\ DOMAIN st'.envs[x].map \ {n} = DOMAIN st.envs[x].map \ {n}
                /\ x # target => DOMAIN st'.envs[x].map = DOMAIN st.envs[x].map
                /\ \A m \in DOMAIN st.envs[x].map :
                      (x # target \/ m # n) => st'.envs[x].map[m] = st.envs[x].map[m]
    ]_vars

\* A set that started in a child environment which does not bind the
\* name, and landed in an ancestor that does.
C8_Witness ==
    /\ kind = "set"
    /\ form.env # GlobalEnv
    /\ form.name \notin DOMAIN st.envs[form.env].map
    /\ FindEnv(st.envs, form.env, form.name) # NoEnv
    /\ st.envs[FindEnv(st.envs, form.env, form.name)].map[form.name] = form.v

\* C1: when the call typed at the prompt has all-number actuals and is
\* answered by the compiled code, the number it returns is the number the
\* interpreter returns for the same body, arguments and environment.
C1_NativeEqualsInterpreter ==
    (/\ kind = "callnum"
     /\ st.fault = ""
     /\ AtPrompt(st, "result", Callee(st, form))
     /\ ref.err = NoErr
     /\ ref.val.t = "num")
    => (obs.err = NoErr /\ obs.val = ref.val)

\* C2: when a native invocation yields NaN during a call, what the user
\* observes of the call (value or error, output, global bindings) is what
\* pure interpretation of the call shows; nothing is printed twice.
C2_DeoptMatchesInterpreter ==
    (/\ kind = "callnum"
     /\ st.fault = ""
     /\ \E id \in 1..Len(st.funcs) : Events(st, "deopt", id) # {})
    => obs = ref

\* The functions of each session whose bodies the emitter lowers and which
\* no other function of the session calls.
FreshLowerable(p) ==
    CASE p = "inc" -> {"f"}
      [] p = "ctl" -> {"f_let"}
      [] p = "truthy" -> {"t0", "t1"}
      [] p = "free" -> {"g"}
      [] p = "effects" -> {"F"}
      [] p = "variadic" -> {"v1", "v2"}
      [] p = "shadow" -> {"s1", "s2", "s3"}
      [] p = "altlet" -> {"a1", "a2"}
      [] p = "nest" -> {"g"}
      [] p = "rec" -> {"r"}
      [] p = "short" -> {"sh"}
      [] p = "qq" -> {}
      [] p = "twice" -> {"w"}
      [] p = "stale" -> {"g"}
      [] p = "mutual" -> {}

\* What (type n) and (print n) show for a function with or without code.
TypeShown(compiled) == Sym(IF compiled THEN "jit_func" ELSE "function")
PrintShown(compiled) == Str(IF compiled THEN "<jit_func>" ELSE "<function>")

\* C3: a fresh lowerable function that no other function calls holds no
\* code and shows as `function` while its numeric-call-count is at most
\* three; from the fourth all-number call on it holds code, (type f) gives
\* jit_func and (print f) prints <jit_func>.  A call with a non-number
\* actual compiles nothing.
C3_CompiledAtFourthNumericCall ==
    /\ \A n \in FreshLowerable(prog) :
          LET id == GlobalFn(st, n)
              hot == st.funcs[id].ncalls > JitThreshold
          IN id # 0 =>
               /\ st.funcs[id].alive => (st.funcs[id].code <=> hot)
               /\ (kind = "query" /\ form = App("type", <<Sym(n)>>))
                     => (obs.err = NoErr /\ obs.val = TypeShown(hot))
               /\ (kind = "query" /\ form = App("print", <<Sym(n)>>))
                     => (obs.err = NoErr /\ obs.out = <<<<PrintShown(hot)>>, <<PrintShown(hot)>>>>)
    /\ kind = "callother" =>
          \A i \in 1..Len(st.log) : st.log[i][1] \notin {"synth", "native"}

\* C3, second sentence: a call with a non-number actual leaves every
\* numeric-call-count, code pointer and jit-failed flag as it was.
C3_NonNumericCallCountsNothing ==
    [][kind' = "callother" =>
         /\ Len(st'.funcs) = Len(st.funcs)
         /\ \A id \in 1..Len(st.funcs) :
               /\ st'.funcs[id].ncalls = st.funcs[id].ncalls
               /\ st'.funcs[id].code = st.funcs[id].code
               /\ st'.funcs[id].failed = st.funcs[id].failed
    ]_vars

C5_JitFailedSticky ==
    [][st'.fault = "" =>
         /\ \A id \in 1..Len(st.funcs) :
               st.funcs[id].failed =>
                  /\ st'.funcs[id].failed
                  /\ ~st'.funcs[id].code
                  /\ Events(st', "synth", id) = {}
         /\ \A id \in 1..Len(st'.funcs) : ~(st'.funcs[id].failed /\ st'.funcs[id].code)
    ]_vars

\* A function marked jit-failed has just been called again with numbers,
\* past the threshold, and ran in the interpreter.
C5_Witness ==
    /\ kind = "callnum"
    /\ st.fault = ""
    /\ LET id == Callee(st, form)
       IN /\ id # 0
          /\ st.funcs[id].failed
          /\ ~st.funcs[id].code
          /\ st.funcs[id].ncalls > JitThreshold + 1
          /\ Events(st, "synth", id) = {}
          /\ obs.err = NoErr

\* C6: each function of tests/jit_control_forms.lisp (cond with a #t
\* default arm, let, let around a while loop that updates its locals with
\* set) holds compiled code once it has been called five times with
\* numbers, and (type f) then gives jit_func and (print f) <jit_func>.
C6_ControlFormsCompiled ==
    prog = "ctl" =>
       \A n \in {"f_cond", "f_let", "f_while"} :
          LET id == GlobalFn(st, n)
          IN (id # 0 /\ st.funcs[id].ncalls >= 5) =>
               /\ st.funcs[id].code
               /\ (kind = "query" /\ form = App("type", <<Sym(n)>>))
                     => obs.val = TypeShown(TRUE)
               /\ (kind = "query" /\ form = App("print", <<Sym(n)>>))
                     => obs.out = <<<<PrintShown(TRUE)>>, <<PrintShown(TRUE)>>>>

\* A parameter list that is a bare symbol or ends in a dotted-tail symbol.
RECURSIVE IsVariadic(_)
IsVariadic(params) ==
    IF params.t = "sym" THEN TRUE
    ELSE IF params.t = "pair" THEN IsVariadic(params.cdr)
    ELSE FALSE

\* C7: a variadic function never holds compiled code, however often it is
\* called with numbers, and (type f) gives function.
C7_VariadicNeverCompiled ==
    \A id \in 1..Len(st.funcs) :
       (st.funcs[id].alive /\ IsVariadic(st.funcs[id].params)) =>
          /\ ~st.funcs[id].code
          /\ \A n \in FnNames(prog) :
                (GlobalFn(st, n) = id /\ kind = "query" /\ form = App("type", <<Sym(n)>>))
                   => obs.val = TypeShown(FALSE)

\* What lexical scoping gives for the calls of the shadowing session, with
\* the global y = 10: s1 returns its let-bound x = 5, not the parameter; s2
\* adds the let-bound y = 1 to the global y seen again after the let; s3
\* adds its let-bound a = 5 to the parameter.
ShadowExpected(f) ==
    CASE f.car.s = "s1" -> Num(5)
      [] f.car.s = "s2" -> Num(11)
      [] f.car.s = "s3" -> NumD(FAdd(DInt(5), f.cdr.car.v))

\* C9: inside a let body the let-bound symbol hides the parameter or the
\* global of the same name, and after the let the outer binding is seen
\* again unchanged, whether the function is interpreted or compiled.
C9_LetShadows ==
    (prog = "shadow" /\ kind = "callnum" /\ st.fault = "") =>
       /\ ref.err = NoErr /\ ref.val = ShadowExpected(form)
       /\ obs.err = NoErr /\ obs.val = ShadowExpected(form)
       /\ obs.globals["y"] = Num(10)

\* The same let written with the two binding forms.
AltLet(body) == App("let", <<L(<<L(<<Sym("a"), Num(1)>>), L(<<Sym("b"), Num(2)>>)>>), body>>)
FlatLet(body) == App("let", <<L(<<Sym("a"), Num(1), Sym("b"), Num(2)>>), body>>)

\* C10: let with the binding form ((a 1) (b 2)) binds a and b in the child
\* environment and gives what the flat form (a 1 b 2) gives: typed at the
\* prompt (+ a b) is 3 either way, and a function whose body uses the
\* alternative form returns what its flat twin returns.
C10_AltLetForm ==
    /\ (kind = "query" /\ form \in {AltLet(App("+", <<Sym("a"), Sym("b")>>)),
                                    FlatLet(App("+", <<Sym("a"), Sym("b")>>))})
          => (obs.err = NoErr /\ obs.val = Num(3))
    /\ (prog = "altlet" /\ kind = "callnum" /\ st.fault = "")
          => (obs.err = NoErr /\ obs.val = NumD(FAdd(form.cdr.car.v, DInt(2))))

\* C11 (function half): a user function called with fewer actuals than
\* formals leaves the trailing formals unbound, so a call of sh = (fn (x y)
\* (+ x y)) with the one actual 1 ends in the error `unbound symbol: y`.
C11_MissingFormalUnbound ==
    (kind = "callnum" /\ form = App("sh", <<Num(1)>>))
        => (st.fault = "" /\ obs.err = <<"unbound symbol: ", "y">>)

\* C12: in a cond test every non-nil value counts as true, the number 0
\* included, so t0 = (fn (x) (cond (x 1) (#t 2))) called with 0 takes its
\* first arm and returns 1, interpreted or compiled.
C12_ZeroIsTrue ==
    (kind = "callnum" /\ form = App("t0", <<Num(0)>>) /\ st.fault = "")
        => (obs.err = NoErr /\ obs.val = Num(1))

\* The value of e in the global environment of world S, by the interpreter.
ValueIn(S, e) ==
    eval([S EXCEPT !.val = Nil, !.err = NoErr, !.run = TRUE, !.out = <<>>, !.log = <<>>],
         e, GlobalEnv, [fuel |-> MaxFuel, jit |-> FALSE])

\* What the claim says a template expands to at a depth: v is the
\* expansion, ok is FALSE when a depth-1 unquote has an argument whose
\* evaluation raises.
RECURSIVE QQShould(_, _, _)
QQShould(S, t, depth) ==
    IF t.t # "pair" THEN [ok |-> TRUE, v |-> t]
    ELSE IF t.car = Sym("unquote") /\ depth = 1
         THEN [ok |-> ValueIn(S, pair_car(t.cdr)).err = NoErr, v |-> ValueIn(S, pair_car(t.cdr)).val]
    ELSE LET d == IF t.car = Sym("unquote") THEN depth - 1
                  ELSE IF t.car = Sym("quasiquote") THEN depth + 1
                  ELSE depth
             a == QQShould(S, t.car, depth)
             b == QQShould(S, t.cdr, d)
         IN [ok |-> a.ok /\ b.ok, v |-> Pair(a.v, b.v)]

\* C13: (quasiquote t) typed at the prompt returns t with every (unquote e)
\* met at depth 1 replaced by the value of e, the depth starting at 1,
\* rising under a nested quasiquote and falling under an unquote met at a
\* greater depth; everything else comes back as it was written.  When the
\* evaluation of such an e raises, so does the form.
C13_QuasiquoteDepth ==
    (kind = "query" /\ prog = "qq" /\ st.fault = "")
        => LET want == QQShould(st, form.cdr.car, 1)
           IN IF want.ok THEN obs.err = NoErr /\ obs.val = want.v
              ELSE obs.err # NoErr

\* `(quasiquote (unquote (unquote y))) came back with the inner y replaced
\* by 10 and both outer layers kept.
C13_Witness ==
    /\ kind = "query"
    /\ form = App("quasiquote", <<App("quasiquote", <<App("unquote", <<App("unquote", <<Sym("y")>>)>>)>>)>>)
    /\ obs.err = NoErr
    /\ obs.val = App("quasiquote", <<App("unquote", <<Num(10)>>)>>)

\* --------------------------------------------------- lines typed as text
\* A session at the prompt whose lines are texts, read by the reader and
\* evaluated in the global environment.  The variables are those of the
\* sessions above: st the world after the last line, prog the kind of
\* session, loaded the number of lines typed, kind the text of the last
\* line, form what it read as, obs what the user saw of it (with the report
\* of its error); ref is the world the teardown started from, nil before.
MaxLines == 3

ErrorLines ==
    {"(cons y y)", "(car (cdr z))", "(+ nil 1)", "(car 1)", "(+ 1 (car 1))", "(nil)",
     "(set m (macro () (list f)))", "(m)",
     "(set d (macro () (/ 1 0)))", "(d)",
     "(set o (macro () (m)))", "(o)",
     "(set g (fn () (m)))", "(g)",
     "(set k (macro (x) (list 'f x)))", "(k 1)"}

ModuleLines ==
    {"(require \"a.lisp\")", "(require \"./a.lisp\")", "(require \"l.lisp\")",
     "(require \"/w/b.lisp\")", "(require \"c.lisp\")", "(require \"e.lisp\")",
     "(require \"d/m.lisp\")", "(require \"n.lisp\")", "(require \"z.lisp\")", "(require 1)"}

TextProgs == {"errors", "modules"}
Lines(p) == CASE p = "errors" -> ErrorLines [] p = "modules" -> ModuleLines

Seen(S) == [val |-> S.val, out |-> S.out, report |-> report_exception(S)]

InitText ==
    /\ st = InitWorld
    /\ prog \in TextProgs
    /\ loaded = 0
    /\ form = Nil
    /\ kind = ""
    /\ obs = Seen(InitWorld)
    /\ ref = Nil

TypeLine ==
    /\ loaded < MaxLines
    /\ st.fault = ""
    /\ st.global # NoEnv
    /\ \E line \in Lines(prog) :
          /\ st' = ReplLine(st, line, TRUE)
          /\ kind' = line
          /\ form' = parse(st, line).val
    /\ obs' = Seen(st')
    /\ loaded' = loaded + 1
    /\ UNCHANGED <<prog, ref>>

\* End of input at the prompt: repl returns, main returns and its
\* ShutdownGuard tears the State down.  ref keeps the world it started from.
Quit ==
    /\ st.fault = ""
    /\ st.global # NoEnv
    /\ st' = Do("shutdown_and_purge_pools", <<st>>)
    /\ ref' = st
    /\ obs' = Seen(st')
    /\ UNCHANGED <<prog, loaded, form, kind>>

NextText == TypeLine \/ Quit

SpecText == InitText /\ [][NextText]_vars

\* The expansions still open at the end of a log, outermost first: each
\* entry is the note made when the expansion began.
RECURSIVE OpenExpansions(_, _)
OpenExpansions(log, open) ==
    IF log = <<>> THEN open
    ELSE IF Head(log)[1] = "expand" THEN OpenExpansions(Tail(log), Append(open, Head(log)))
    ELSE IF Head(log)[1] = "expanded" THEN OpenExpansions(Tail(log), SubSeq(open, 1, Len(open) - 1))
    ELSE OpenExpansions(Tail(log), open)

\* The frames the call chain owes to one open expansion: the call site, when
\* its location is known, then the definition, when its location is known.
FramesOf(ev) ==
    IF "at" \notin DOMAIN ev[2] THEN <<>>
    ELSE <<[ev[2].at EXCEPT !.label = IF ev[2].car.t = "sym" THEN "macro " \o ev[2].car.s
                                      ELSE "macro"]>>
         \o (IF ev[3].t = "pair" /\ "at" \in DOMAIN ev[3]
             THEN <<[ev[3].at EXCEPT !.label = "macro-def"]>> ELSE <<>>)

RECURSIVE FramesOfAll(_)
FramesOfAll(open) == IF open = <<>> THEN <<>> ELSE FramesOf(Head(open)) \o FramesOfAll(Tail(open))

IsMacroFrame(fr) == fr.label # "fn"

\* C14: when a line fails while macro bodies are being expanded, the call
\* chain reported holds, for every expansion then open whose call site has a
\* known location, the frame of the call site labelled macro NAME followed by
\* the frame macro-def when the location of the definition is known, the
\* frames of an enclosing expansion before those of the expansions inside it;
\* and when the line itself is the macro call, its frame is the first of the
\* chain.
C14_MacroCallChain ==
    LET open == OpenExpansions(st.log, <<>>)
        chain == obs.report.chain
    IN (prog \in TextProgs /\ st.fault = "" /\ st.err # NoErr /\ open # <<>>)
          => /\ SelectSeq(chain, IsMacroFrame) = FramesOfAll(open)
             /\ (open[1][2] = form /\ "at" \in DOMAIN form) => chain[1] = FramesOf(open[1])[1]

C14_Witness ==
    /\ kind = "(o)"
    /\ obs.report.msg = <<"unbound symbol: ", "f">>
    /\ obs.report.chain = <<[SourceLoc("(string)", 1, 1) EXCEPT !.label = "macro o"],
                            [SourceLoc("(string)", 1, 8) EXCEPT !.label = "macro-def"],
                            [SourceLoc("(string)", 1, 18) EXCEPT !.label = "macro m"],
                            [SourceLoc("(string)", 1, 8) EXCEPT !.label = "macro-def"]>>

\* The position, in each of these lines, of the expression whose evaluation
\* fails: the first y of (cons y y), the z of (car (cdr z)), the inner list
\* of (+ 1 (car 1)) and the list itself in the other three.
LocatedLines == {"(cons y y)", "(car (cdr z))", "(+ nil 1)", "(car 1)", "(+ 1 (car 1))", "(nil)"}
ErrorSite(line) ==
    CASE line = "(cons y y)" -> SourceLoc("(string)", 1, 7)
      [] line = "(car (cdr z))" -> SourceLoc("(string)", 1, 11)
      [] line = "(+ 1 (car 1))" -> SourceLoc("(string)", 1, 6)
      [] OTHER -> SourceLoc("(string)", 1, 1)

\* C15: the error of a line is reported at the position at which the
\* failing expression of the line was read, also when a symbol occurs twice
\* in the line and when a nil literal is evaluated before the failure.
C15_ErrorLocality ==
    (prog \in TextProgs /\ kind \in LocatedLines /\ st.fault = "")
        => (obs.report.msg # NoErr /\ obs.report.loc = ErrorSite(kind))

\* The function and macro records bound in the global environment of S that
\* close over it.
GlobalClosures(S) ==
    {S.envs[GlobalEnv].map[n].id :
        n \in {m \in DOMAIN S.envs[GlobalEnv].map :
                  /\ S.envs[GlobalEnv].map[m].t \in {"func", "macro"}
                  /\ S.funcs[S.envs[GlobalEnv].map[m].id].env = GlobalEnv}}

\* C19: the teardown of a State whose global environment binds functions or
\* macros that close over it ends without a record used after its release
\* or released twice, with each of those records destroyed, the global
\* environment destroyed and State::global null.
C19_ShutdownBreaksCycle ==
    (prog \in TextProgs /\ st.global = NoEnv /\ GlobalClosures(ref) # {})
        => /\ st.fault = ""
           /\ \A id \in GlobalClosures(ref) : ~st.funcs[id].alive
           /\ GlobalEnv \notin DOMAIN st.envs

\* ------------------------------------------------------ running a script
\* The program started from a command line (main): form is the command
\* line, program name first; kind is the script it names, given by the
\* expressions written in it and the filler before, between and after them;
\* loaded is how far main has come (0 State built, 1 argv bound, 2 script
\* run or prompt left, 3 torn down); ref is what parse_all made of the
\* script.  No scripts/lang_basics.lisp lies in the working directory.
MaxArgs == 2
ArgWords == {"a", "b"}
ScriptName == "s.lisp"
AbsentName == "none.lisp"

RECURSIVE WordSeqs(_)
WordSeqs(n) ==
    IF n = 0 THEN {<<>>}
    ELSE WordSeqs(n - 1) \cup {Append(w, x) : w \in WordSeqs(n - 1), x \in ArgWords}

CommandLines ==
    {<<"vdlisp">>, <<"vdlisp", AbsentName>>}
        \cup {<<"vdlisp", ScriptName>> \o w : w \in WordSeqs(MaxArgs)}

Pieces == {"1", "(+ 1 2)", "(car argv)", "x"}
Before == {"", "; c\n"}
Between == {" ", "\n"}
After == {"", "\n", " ; c"}
NoScript == [pre |-> "", exprs |-> <<>>, sep |-> " ", post |-> ""]
Scripts ==
    [pre : Before, exprs : {<<>>} \cup {<<p>> : p \in Pieces} \cup (Pieces \X Pieces),
     sep : Between, post : After]

RECURSIVE Join(_, _)
Join(texts, sep) ==
    IF texts = <<>> THEN ""
    ELSE IF Len(texts) = 1 THEN texts[1]
    ELSE texts[1] \o sep \o Join(Tail(texts), sep)

TextOf(script) == script.pre \o Join(script.exprs, script.sep) \o script.post

\* State::make_string_list(argc, argv, start): the strings argv[start] ..
\* argv[argc - 1]; argv[k] is the element k + 1 of the command line.
make_string_list(argv, start) ==
    list_of([i \in 1..(IF Len(argv) > start THEN Len(argv) - start ELSE 0) |-> Str(argv[i + start])])

\* main, line 159.
BindArgvWorld(argv) == bind(InitWorld, Sym("argv"), make_string_list(argv, 1), GlobalEnv)

\* main, lines 190-193: the list parse_all returned is run when it is not
\* nil and the text of its value printed.
PrintValue(S1) ==
    IF ~S1.run THEN S1
    ELSE Keeping(S1, Do("release", <<[S1 EXCEPT !.out = Append(@, <<to_repr(S1, S1.val)>>)], S1.val>>))
RunList(S, e) ==
    IF ~S.run \/ e.t = "nil" THEN S
    ELSE PrintValue(Do("do_list", <<S, e, GlobalEnv, [fuel |-> MaxFuel, jit |-> TRUE]>>))

\* main, lines 181-197, for a script that can be opened.
RunParsed(S1) == RunList(S1, S1.val)
RunFile(S, text, name) == RunParsed(parse_all(S, text, name))

InitRun ==
    /\ st = InitWorld
    /\ prog = "main"
    /\ loaded = 0
    /\ form \in CommandLines
    /\ kind \in IF Len(form) >= 2 /\ form[2] = ScriptName THEN Scripts ELSE {NoScript}
    /\ obs = Seen(InitWorld)
    /\ ref = Nil

BindArgv ==
    /\ loaded = 0
    /\ st' = BindArgvWorld(form)
    /\ loaded' = 1
    /\ obs' = Seen(st')
    /\ UNCHANGED <<prog, form, kind, ref>>

\* argc < 2: a line typed at the prompt.
Prompt ==
    /\ loaded = 1
    /\ Len(form) < 2
    /\ st.fault = ""
    /\ \E line \in {"argv", "(set n (cons 1 argv))", "n"} : st' = ReplLine(st, line, TRUE)
    /\ obs' = Seen(st')
    /\ UNCHANGED <<prog, loaded, form, kind, ref>>

EndOfInput ==
    /\ loaded = 1
    /\ Len(form) < 2
    /\ loaded' = 2
    /\ UNCHANGED <<st, prog, form, kind, obs, ref>>

\* The script cannot be opened: a message on the error stream, nothing run.
NoFile ==
    /\ loaded = 1
    /\ Len(form) >= 2
    /\ form[2] # ScriptName
    /\ loaded' = 2
    /\ UNCHANGED <<st, prog, form, kind, obs, ref>>

Load ==
    /\ loaded = 1
    /\ Len(form) >= 2
    /\ form[2] = ScriptName
    /\ st' = RunFile(st, TextOf(kind), form[2])
    /\ ref' = parse_all(st, TextOf(kind), form[2]).val
    /\ loaded' = 2
    /\ obs' = Seen(st')
    /\ UNCHANGED <<prog, form, kind>>

\* main returns: the ShutdownGuard tears the State down.
Exit ==
    /\ loaded = 2
    /\ st.fault = ""
    /\ st' = Do("shutdown_and_purge_pools", <<st>>)
    /\ loaded' = 3
    /\ obs' = Seen(st')
    /\ UNCHANGED <<prog, form, kind, ref>>

NextRun == BindArgv \/ Prompt \/ EndOfInput \/ NoFile \/ Load \/ Exit

SpecRun == InitRun /\ [][NextRun]_vars

\* A value as written, without the positions the reader recorded.
RECURSIVE Strip(_)
Strip(v) ==
    IF v.t = "pair" THEN Pair(Strip(v.car), Strip(v.cdr))
    ELSE IF v.t = "str" THEN Str(v.s)
    ELSE v

\* The expressions written in a script, each read on its own.
Written(script) ==
    list_of([i \in 1..Len(script.exprs) |-> parse(InitWorld, script.exprs[i]).val])

\* C17: the list parse_all makes of a script holds the expressions written
\* in it, in their order, and nothing else, whatever whitespace and comments
\* stand before, between and after them; running the script prints what
\* running the list of those expressions prints and leaves its value.
C17_ParseAllExactlyTheExpressions ==
    LET want == RunList(BindArgvWorld(form), Written(kind))
    IN (prog = "main" /\ loaded = 2 /\ Len(form) >= 2 /\ form[2] = ScriptName)
          => /\ Strip(ref) = Strip(Written(kind))
             /\ st.out = want.out
             /\ st.val = want.val
             /\ (st.err = NoErr) = (want.err = NoErr)

\* C18: once argv is bound and before anything of the user has run, argv
\* is the list of the command-line arguments that follow the script name.
C18_ArgvAfterScriptName ==
    (prog = "main" /\ loaded = 1)
        => st.envs[GlobalEnv].map["argv"] = list_of([i \in 1..(IF Len(form) > 2 THEN Len(form) - 2 ELSE 0) |-> Str(form[i + 2])])

\* ------------------------------------------------------------------ C16
Opens(h, key) == {i \in 1..Len(h) : h[i] = <<"open", key>>}
DoneBefore(h, key, j) == {i \in 1..(j - 1) : h[i][1] = "done" /\ h[i][2] = key}

\* C16: over a session of require calls, the file at a canonical path is
\* opened and evaluated at most once; a require answered while the load of
\* the module has not completed returns nil, and a require answered after
\* it completed returns the value the load ended with.
C16_ModuleLoadedOnce ==
    LET h == st.hist
    IN (prog = "modules" /\ st.fault = "")
          => /\ \A key \in DOMAIN Disk : Cardinality(Opens(h, key)) <= 1
             /\ \A j \in 1..Len(h) :
                   h[j][1] = "hit" =>
                      /\ \E i \in 1..(j - 1) : h[i] = <<"open", h[j][2]>>
                      /\ IF DoneBefore(h, h[j][2], j) = {} THEN h[j][3] = Nil
                         ELSE \A i \in DoneBefore(h, h[j][2], j) : h[j][3] = h[i][3]

\* The module a.lisp was loaded through one spelling, with b.lisp asking
\* for it meanwhile, and asked for again through the symbolic link.
C16_Witness ==
    /\ prog = "modules"
    /\ st.fault = ""
    /\ kind = "(require \"l.lisp\")"
    /\ st.hist = <<<<"open", "/w/a.lisp">>, <<"open", "/w/b.lisp">>, <<"hit", "/w/a.lisp", Nil>>,
                   <<"done", "/w/b.lisp", Pair(Num(8), Nil)>>, <<"done", "/w/a.lisp", Num(7)>>,
                   <<"hit", "/w/a.lisp", Num(7)>>>>

\* ------------------------------------------------ Values and heap records
\* The Value class on its own (nanbox.cpp).  Here st is the heap:
\*   recs  the records ever allocated, in order: alive, refs (RcBase::refs_),
\*         the member Values car and cdr, was (the members as they stood
\*         when the record was destroyed), freed (how often it was destroyed)
\*   vars  the Values of the host: live (constructed and not destroyed), bits
\*   uaf   a destroyed Value or record has been read or written
\* A place is a Value the host can name: one of its own (id 0), or a member of the
\* record one of its own refers to.  Reading a destroyed Value is undefined:
\* the build gives the nil its destructor stored, or the bits it held before
\* when that store was dropped as dead.
MaxRecs == 2
Vars == {"a", "b"}
Box(id) == [t |-> "box", id |-> id]
IsBox(v) == v.t = "box"
Member(id, m) == [id |-> id, m |-> m]
Var(v) == Member(0, v)
IsVar(p) == p.id = 0

InitHeap == [recs |-> <<>>, vars |-> [v \in Vars |-> [live |-> FALSE, bits |-> Nil]], uaf |-> FALSE]

Live(H, p) == IF IsVar(p) THEN H.vars[p.m].live ELSE H.recs[p.id].alive
Bits(H, p) == IF IsVar(p) THEN H.vars[p.m].bits ELSE H.recs[p.id][p.m]
Stale(H, p) == IF IsVar(p) THEN H.vars[p.m].bits ELSE H.recs[p.id].was[p.m]
Store(H, p, v) ==
    IF ~Live(H, p) THEN [H EXCEPT !.uaf = TRUE]
    ELSE IF IsVar(p) THEN [H EXCEPT !.vars[p.m].bits = v]
    ELSE [H EXCEPT !.recs[p.id][p.m] = v]

\* other.bits as an assignment reads it: pick chooses what a destroyed
\* Value gives.
Fetch(H, p, pick) == IF Live(H, p) THEN Bits(H, p) ELSE IF pick = "nil" THEN Nil ELSE Stale(H, p)
Touched(H, p) == IF Live(H, p) THEN H ELSE [H EXCEPT !.uaf = TRUE]

Places(H) ==
    {Var(v) : v \in {x \in Vars : H.vars[x].live}}
        \cup {Member(H.vars[v].bits.id, m) :
                 v \in {x \in Vars : H.vars[x].live /\ IsBox(H.vars[x].bits)
                                        /\ H.recs[H.vars[x].bits.id].alive},
                 m \in {"car", "cdr"}}

\* Value::retain / retain_payload
retain_payload(H, v) ==
    IF ~IsBox(v) THEN H
    ELSE IF ~H.recs[v.id].alive THEN [H EXCEPT !.uaf = TRUE]
    ELSE [H EXCEPT !.recs[v.id].refs = @ + 1]

\* Value::release_payload: the count goes down; at zero the record is
\* deleted, which destroys its members, cdr before car.
RECURSIVE release_payload(_, _)
release_payload(H, v) ==
    LET id == v.id
        H1 == [H EXCEPT !.recs[id].refs = @ - 1, !.recs[id].was = [car |-> H.recs[id].car, cdr |-> H.recs[id].cdr]]
        H2 == [release_payload(H1, H1.recs[id].cdr) EXCEPT !.recs[id].cdr = Nil]
        H3 == [release_payload(H2, H2.recs[id].car) EXCEPT !.recs[id].car = Nil]
    IN IF ~IsBox(v) THEN H
       ELSE IF ~H.recs[id].alive \/ H.recs[id].refs = 0 THEN [H EXCEPT !.uaf = TRUE]
       ELSE IF H.recs[id].refs # 1 THEN [H EXCEPT !.recs[id].refs = @ - 1]
       ELSE [H3 EXCEPT !.recs[id].alive = FALSE, !.recs[id].freed = @ + 1]

\* Value::release on the Value at place p: release_payload, then bits = nil.
Value_release(H, p) ==
    IF ~IsBox(Bits(H, p)) THEN H
    ELSE Store(release_payload(H, Bits(H, p)), p, Nil)

\* Value::Value(const Value &other)
CopyConstructed(H, v, other) ==
    retain_payload([H EXCEPT !.vars[v] = [live |-> TRUE, bits |-> Bits(H, other)]], Bits(H, other))

\* Value::Value(Value &&other)
MoveConstructed(H, v, other) ==
    Store([H EXCEPT !.vars[v] = [live |-> TRUE, bits |-> Bits(H, other)]], other, Nil)

\* operator=(const Value &other)
CopyAssigned(H, p, other, pick) ==
    LET H1 == retain_payload(H, Bits(H, other))
        H2 == Value_release(H1, p)
    IN IF p = other THEN H
       ELSE IF Bits(H, p) = Bits(H, other) THEN H
       ELSE Store(Touched(H2, other), p, Fetch(H2, other, pick))

\* operator=(Value &&other)
MoveAssigned(H, p, other, pick) ==
    LET H1 == Value_release(H, p)
        H2 == Store(Touched(H1, other), p, Fetch(H1, other, pick))
    IN IF p = other THEN H
       ELSE Store(H2, other, Nil)

\* operator=(std::nullptr_t)
NilAssigned(H, p) == Store(Value_release(H, p), p, Nil)

\* Value::reset: *this = Value(), the move assignment from a temporary nil.
reset(H, p) == Store(Value_release(H, p), p, Nil)

\* Value::~Value
Destroyed(H, v) == [Value_release(H, Var(v)) EXCEPT !.vars[v].live = FALSE]

\* State::make_pair(const Value &, const Value &) into a new Value v: the
\* arguments are copied and the copies moved into the new record, whose
\* count starts at 1.
MadePair(H, v, x, y) ==
    LET id == Len(H.recs) + 1
        rec == [alive |-> TRUE, refs |-> 1, car |-> x, cdr |-> y,
                was |-> [car |-> Nil, cdr |-> Nil], freed |-> 0]
        H1 == retain_payload(retain_payload(H, x), y)
    IN [H1 EXCEPT !.recs = Append(@, rec), !.vars[v] = [live |-> TRUE, bits |-> Box(id)]]

InitValue ==
    /\ st = InitHeap
    /\ prog = "values"
    /\ loaded = 0
    /\ form = Nil
    /\ kind = ""
    /\ obs = Nil
    /\ ref = Nil

Did(what) == UNCHANGED <<prog, loaded, form, kind, obs, ref>>

MakePair ==
    /\ ~st.uaf
    /\ Len(st.recs) < MaxRecs
    /\ \E v \in Vars, x, y \in {Nil} \cup {st.vars[w].bits : w \in {u \in Vars : st.vars[u].live}} :
          /\ ~st.vars[v].live
          /\ st' = MadePair(st, v, x, y)
    /\ Did("make_pair")

CopyConstruct ==
    /\ ~st.uaf
    /\ \E v \in Vars, other \in Places(st) :
          /\ ~st.vars[v].live
          /\ st' = CopyConstructed(st, v, other)
    /\ Did("copy")

MoveConstruct ==
    /\ ~st.uaf
    /\ \E v \in Vars, other \in Places(st) :
          /\ ~st.vars[v].live
          /\ st' = MoveConstructed(st, v, other)
    /\ Did("move")

CopyAssign ==
    /\ ~st.uaf
    /\ \E p, other \in Places(st), pick \in {"nil", "stale"} : st' = CopyAssigned(st, p, other, pick)
    /\ Did("copy=")

MoveAssign ==
    /\ ~st.uaf
    /\ \E p, other \in Places(st), pick \in {"nil", "stale"} : st' = MoveAssigned(st, p, other, pick)
    /\ Did("move=")

NilAssign ==
    /\ ~st.uaf
    /\ \E p \in Places(st) : st' = NilAssigned(st, p)
    /\ Did("nil=")

Reset ==
    /\ ~st.uaf
    /\ \E p \in Places(st) : st' = reset(st, p)
    /\ Did("reset")

Destroy ==
    /\ ~st.uaf
    /\ \E v \in Vars : st.vars[v].live /\ st' = Destroyed(st, v)
    /\ Did("destroy")

NextValue ==
    MakePair \/ CopyConstruct \/ MoveConstruct \/ CopyAssign \/ MoveAssign \/ NilAssign \/ Reset \/ Destroy

SpecValue == InitValue /\ [][NextValue]_vars

\* The live Values that refer to record k: those of the host and the
\* members of the records not destroyed.
Referrers(H, k) ==
    {Var(v) : v \in {x \in Vars : H.vars[x].live /\ H.vars[x].bits = Box(k)}}
        \cup {p \in {Member(id, m) : id \in 1..Len(H.recs), m \in {"car", "cdr"}} :
                 H.recs[p.id].alive /\ H.recs[p.id][p.m] = Box(k)}

\* C20: whatever copies, moves, assignments, resets and destructions have
\* been made, the count of every record is the number of live Values that
\* refer to it, a record is alive exactly while that number is not zero, and
\* no record has been destroyed twice.
C20_CountIsLiveReferences ==
    prog = "values"
        => \A k \in 1..Len(st.recs) :
              /\ st.recs[k].alive => st.recs[k].refs = Cardinality(Referrers(st, k))
              /\ st.recs[k].alive = (Cardinality(Referrers(st, k)) > 0)
              /\ st.recs[k].freed <= 1

\* ------------------------------------- closures and their environments
\* The strong references held on environment e of S: the State's own on its
\* global environment, one per environment whose parent e is, and one per
\* live function or macro record whose closure_env e is.
Owners(S, e) ==
    (IF S.global = e THEN 1 ELSE 0)
    + Cardinality({i \in DOMAIN S.envs : S.envs[i].parent = e})
    + Cardinality({k \in 1..Len(S.funcs) : S.funcs[k].alive /\ S.funcs[k].env = e})

\* C21: a function or macro record takes one reference on its closure
\* environment when it is allocated and gives that one back when it is
\* destroyed, so between two lines at the prompt the count of every
\* environment is the number of its owners, with records of either kind
\* among the destroyed.
C21_ClosureHoldsOneReference ==
    (prog \in TextProgs /\ st.fault = "" /\ st.global # NoEnv)
        => \A e \in DOMAIN st.envs : st.envs[e].refs = Owners(st, e)

\* ------------------------------------------------- the active-state pointer
\* C22: jit_active_state refers to the evaluator whenever a native entry is
\* executing, also once a native call nested in it has returned, so the
\* bridge never finds it null; and it is null when no native entry is
\* executing, i.e. between two turns at the prompt.
C22_ActiveWhileNative ==
    (prog \in Progs /\ st.fault = "")
        => /\ ~st.active
           /\ \A i \in 1..Len(st.log) : st.log[i][1] # "refused"

\* -------------------------------------------------- the bits of a Value
\* Value::bits, 64 bits wide, as its four fields: sign (bit 63), exp (bits
\* 52..62), tag (bits 48..51) and low (bits 0..47).  kNaNMask selects exp,
\* kTagMask exp and tag, kPayloadMask low.  A double written into a Value is
\* given by the same four fields (memcpy).
ExpOnes == 2047
Word(sign, exp, tag, low) == [sign |-> sign, exp |-> exp, tag |-> tag, low |-> low]

\* The patterns the checks write: both signs; zero and subnormals, a normal
\* exponent, the largest finite exponent and the exponent of infinities and
\* NaNs; every value of bits 48..51; three values of the low 48 bits.
Signs == {0, 1}
Exps == {0, 1023, 2046, ExpOnes}
Nibbles == 0..15
Lows == {0, 1, 16777215}
Patterns == {Word(s, e, t, l) : s \in Signs, e \in Exps, t \in Nibbles, l \in Lows}

\* kTagNil .. kTagCFunc: the tag field of each boxed kind.
kTagNil == 0
kTagPair == 1
kTagString == 2
kTagSymbol == 3
kTagFunc == 4
kTagMacro == 5
kTagPrim == 6
kTagCFunc == 7
Boxed64(tag, low) == Word(0, ExpOnes, tag, low)

\* The table of Value::get_type, from index 0.
kTagMap ==
    <<"nil", "pair", "string", "symbol", "func", "macro", "prim", "cfunc",
      "nil", "nil", "nil", "nil", "nil", "nil", "nil", "nil">>

\* Value::get_type
get_type(bits) ==
    IF bits.exp # ExpOnes THEN "number" ELSE kTagMap[bits.tag + 1]

\* Value::get_number: the bits read as a double.
get_number(bits) == bits

\* Value::set_number with the test of the exponent left out.
Value_set_number_mut(bits, value) == value

\* Value::set_number: the Value holds no record here, so release() has
\* nothing to give back.
Value_set_number(bits, value) ==
    IF value.exp = ExpOnes THEN Word(0, 0, 0, 0) ELSE value

\* Value::set_payload_raw<Tag> (set_pair .. set_macro) and set_fn_raw<Tag>
\* (set_prim, set_cfunc): ptr is the low 48 bits of the pointer.
set_payload_raw(bits, Tag, ptr) ==
    IF bits.exp = ExpOnes /\ bits.tag = Tag /\ bits.low = ptr THEN bits
    ELSE Boxed64(Tag, ptr)
set_fn_raw(bits, Tag, fn) == Boxed64(Tag, fn)

\* st is the bits of one Value, form what the last operation was given,
\* kind the operation and obs the kind get_type then reports.
InitBits ==
    /\ st = Boxed64(kTagNil, 0)
    /\ prog = "bits"
    /\ loaded = 0
    /\ form = Nil
    /\ kind = "Value"
    /\ obs = get_type(Boxed64(kTagNil, 0))
    /\ ref = Nil

SetNumber ==
    /\ \E value \in Patterns :
          /\ st' = Value_set_number(st, value)
          /\ form' = value
    /\ kind' = "set_number"
    /\ obs' = get_type(st')
    /\ UNCHANGED <<prog, loaded, ref>>

SetPayload ==
    /\ \E Tag \in kTagPair..kTagMacro, ptr \in Lows :
          /\ st' = set_payload_raw(st, Tag, ptr)
          /\ form' = [tag |-> Tag, ptr |-> ptr]
    /\ kind' = "set_payload_raw"
    /\ obs' = get_type(st')
    /\ UNCHANGED <<prog, loaded, ref>>

SetFn ==
    /\ \E Tag \in {kTagPrim, kTagCFunc}, fn \in Lows :
          /\ st' = set_fn_raw(st, Tag, fn)
          /\ form' = [tag |-> Tag, ptr |-> fn]
    /\ kind' = "set_fn_raw"
    /\ obs' = get_type(st')
    /\ UNCHANGED <<prog, loaded, ref>>

NextBits == SetNumber \/ SetPayload \/ SetFn

SpecBits == InitBits /\ [][NextBits]_vars

BoundTo(S, id) ==
    {n \in DOMAIN S.envs[GlobalEnv].map : S.envs[GlobalEnv].map[n] = Func(id)}

\* C24: a call through VDLISP__call_from_jit leaves the count of the callee
\* as it found it: between two turns, whatever calls went through the
\* bridge, a function record bound to a global name is alive and its count
\* is the number of Values that refer to it.
C24_BridgeKeepsCount ==
    (prog \in Progs /\ st.fault = "")
        => \A id \in 1..Len(st.funcs) :
              BoundTo(st, id) # {}
                 => /\ st.funcs[id].alive
                    /\ st.funcs[id].refs = Cardinality(BoundTo(st, id))

\* ------------------------------------------------- callees of compiled code
\* C25: once h, called in the body of g, is bound to another function than
\* the first one defined (record 1), a call of g with a number calls the
\* function h is bound to, as the interpreter does, whether g was compiled
\* before or not and whether the first record is still alive or not: the
\* call shows what interpretation shows and touches no destroyed record.
C25_CalleeFollowsBinding ==
    (prog = "stale" /\ kind = "callnum" /\ GlobalFn(st, "h") # 1)
        => (st.fault = "" /\ obs = ref)

\* ---------------------------------------------------- compiling call graphs
\* C26: compileFuncData comes to an end for every function, also for one
\* that calls itself and for functions that call each other, and a request
\* synthesizes each function at most once: no turn ends in the exhaustion of
\* the stack by the compiler, and no function is synthesized twice in a turn.
C26_CompileTerminates ==
    (prog \in Progs)
        => /\ st.fault # "stack overflow"
           /\ \A id \in 1..Len(st.funcs) : Cardinality(Events(st, "synth", id)) <= 1

\* ------------------------------------------------ the argument buffer
\* C27: the native entry is only entered with a buffer that holds a value
\* for every parameter the compiled body loads; no call, with fewer actuals
\* than formals or with none, makes the native code read the buffer past its
\* end.
C27_BufferCoversParameters ==
    (prog \in Progs) => st.fault # "argument read out of bounds"

\* ------------------------------------------------ a module whose body fails
\* The loads of the file at path that hist shows completed.
Completed(h, path) == {j \in 1..Len(h) : h[j][1] = "done" /\ h[j][2] = path}

\* C28: when the body of a required file raises an error, the error reaches
\* the prompt and loaded_modules keeps no entry for the file, so requiring
\* it again reads and evaluates it again: between two lines every entry of
\* loaded_modules is that of a completed load, and every line requiring
\* e.lisp, whose body fails, reports the error.
C28_FailedModuleNotCached ==
    (prog = "modules" /\ st.fault = "" /\ st.global # NoEnv)
        => /\ \A key \in DOMAIN st.loaded_modules : Completed(st.hist, key) # {}
           /\ kind = "(require \"e.lisp\")" => obs.report.msg # NoErr

\* ------------------------------------------------------ the value of set
\* C29: State::set returns the value it stored, so a form (set sym expr)
\* typed at the prompt shows the value of expr, the one sym is bound to
\* afterwards, be it a number, a string or a function.
C29_SetYieldsStoredValue ==
    (prog \in Progs /\ kind \in {"define", "rebind"} /\ st.fault = "" /\ obs.err = NoErr)
        => obs.val = st.envs[GlobalEnv].map[form.cdr.car.s]

\* ---------------------------------------------- host use of State::eval
\* An embedding host evaluates expressions one after the other with
\* State::eval in the global environment, catches the exception of a failed
\* evaluation and drops each result.  form is the expression of the last
\* call, ref what State::current_expr held when the call was entered, obs the
\* value and the error of the call.
EvalForms ==
    {Nil, Num(1), Str("s"), Sym("q"), Sym("f"), Sym("zz"),
     SetForm("q", Num(1)),
     SetForm("m", L(<<Sym("macro"), Nil, Num(1)>>)),
     DefFn("f", L(<<X>>), <<X>>),
     App("quote", <<Sym("a")>>),
     App("m", <<>>),
     App("f", <<Str("s")>>),
     App("+", <<Num(1), Num(2)>>),
     App("list", <<Nil>>),
     App("car", <<Num(1)>>)}

Allocates(expr) == expr.t = "pair" /\ expr.car = Sym("set") /\ expr.cdr.cdr.car.t = "pair"

InitEval ==
    /\ st = InitWorld
    /\ prog = "eval"
    /\ loaded = 0
    /\ form = Nil
    /\ kind = "init"
    /\ obs = [val |-> Nil, err |-> NoErr]
    /\ ref = Nil

\* What the call leaves: the result is dropped, the exception caught.
Evaluated(S1) ==
    /\ st' = Keeping(S1, Do("release", <<[S1 EXCEPT !.err = NoErr, !.run = (S1.fault = "")], S1.val>>))
    /\ obs' = [val |-> S1.val, err |-> S1.err]

HostEval ==
    /\ st.fault = ""
    /\ \E expr \in EvalForms :
          /\ Allocates(expr) => Len(st.funcs) < MaxFuncs
          /\ Evaluated(Do("eval", <<[st EXCEPT !.val = Nil, !.err = NoErr, !.pe = NoPE, !.run = TRUE,
                                              !.log = <<>>, !.out = <<>>],
                                    expr, GlobalEnv, [fuel |-> MaxFuel, jit |-> TRUE]>>))
          /\ form' = expr
    /\ kind' = "eval"
    /\ ref' = st.current_expr
    /\ UNCHANGED <<prog, loaded>>

NextEval == HostEval

SpecEval == InitEval /\ [][NextEval]_vars

\* C30: when State::eval returns normally, State::current_expr holds what it
\* held when that call was entered, whatever the kind of the expression:
\* nil, a number, a string, a symbol, a form of a primitive, a macro call, a
\* call of a function or of a builtin.
C30_CurrentExprRestored ==
    (prog = "eval" /\ kind = "eval" /\ st.fault = "" /\ obs.err = NoErr)
        => st.current_expr = ref

====
